---- MODULE Spec2Model ----
(***************************************************************************)
(* State-machine models of the stateful programs of the course repository: *)
(*   - the production FastAPI application (lesson 16): API-key check,      *)
(*     in-memory sliding-window rate limiter, metrics;                     *)
(*   - the expense approval workflow (lesson 11 challenge);                *)
(*   - the simple approval workflow (lesson 11 demo);                      *)
(*   - the task-manager MCP server (lesson 14);                            *)
(*   - the self-reflecting code review agent (lesson 12);                  *)
(*   - the MCP clients (lessons 13 and 14);                                *)
(*   - the CLI chatbot (lesson 1);                                         *)
(*   - the personality chatbot with persistent memory (lesson 3);          *)
(*   - the content moderation pipeline (lesson 9);                         *)
(*   - the supervisor workflow (lesson 10);                                *)
(*   - the Metrics object of the FastAPI application over a long run;      *)
(*   - concurrent requests of one user to the FastAPI application.         *)
(* The programs are independent of one another: each has its own           *)
(* specification, which leaves the variables of the others untouched.      *)
(***************************************************************************)
EXTENDS Integers, Sequences, FiniteSets, TLC

VARIABLES
    \* ---- lesson 16, api.py
    clients,      \* the API keys the clients of this run present
    now,          \* datetime.now(), in seconds
    requests,     \* rate_limiter.requests: user -> list of admission times
    metrics,      \* the Metrics object
    response,     \* the last request served and its HTTP status
    admitted,     \* history: per user, the admissions of the last Window seconds
    invalid,      \* history: number of requests answered 422
    \* ---- lesson 11, challenge.py: the expense workflow of one thread
    exp_pc,       \* "idle", the next node to run, "interrupted", "updated" or "END"
    exp_input,    \* the expense the first invoke was given
    exp_state,    \* the checkpointed ExpenseState
    exp_invokes,  \* number of app.invoke calls so far
    exp_trace,    \* history: the invokes, nodes, interrupts and updates, in order
    \* ---- lesson 11, demo.py: main()
    ap_pc,        \* position in main() and in the running graph
    ap_state,     \* demo 1: the checkpointed ApprovalState
    ap_result,    \* demo 1: the dict app.invoke returned (local `result`)
    ap_final,     \* demo 1: `final_result`
    ma_state,     \* demo 2: the checkpointed MultiApprovalState
    ma_result,    \* demo 2: the dict app.invoke returned (local `result`)
    \* ---- lesson 14, server.py: the task-manager server
    tasks,        \* server.tasks: task id -> Task
    storage,      \* the content of tasks.json
    stats,        \* server.stats
    srv_now,      \* datetime.now() of the server
    tool_call,    \* the last call_tool: name, arguments, outcome
    \* ---- lesson 12, solution.py: the code review agent run by main()
    rv_test,      \* index of the test case main() is at
    rv_pc,        \* "main", the next node to run, "END" or "done"
    rv_state,     \* the CodeReviewState of the run
    rv_runs,      \* history: how often each node ran in this run
    \* ---- lesson 13, demo.py (MCPClient on a MockMCPServer) and lesson 14,
    \* ---- client_demo.py (MCPClient on the task-manager server)
    mc_program,     \* which of the two client programs this run is
    mc_initialized, \* lesson 13: client.initialized
    mc_pending,     \* lesson 13: initialize() coroutines in asyncio.sleep
    mc_started,     \* lesson 13: number of initialize() calls made
    mc_log,         \* lesson 13: the requests the MockMCPServer received
    mc_call,        \* lesson 13: the last client call and its outcome
    mc_seq,         \* history: flips at every client call (either program)
    cd_connected,   \* lesson 14: client.connected
    cd_call,        \* lesson 14: the last client call and its outcome
    \* ---- lesson 1, solution.py: the CLI chatbot's main()
    cb_pc,          \* "input": at input(); "chat": streaming; "exit"
    cb_messages,    \* messages
    cb_total_tokens, \* total_tokens
    cb_turns,       \* history: number of chat() calls made
    \* ---- lesson 3, solution.py: the personality chatbot with memory
    mem_pc,         \* "stopped": no session; "running": in the main loop
    mem_messages,   \* memory.chat_memory.messages
    mem_preferences, \* preferences
    mem_file,       \* chatbot_memory.json
    mem_saved,      \* history: what memory held at the last save_memory
    \* ---- lesson 9, solution.py: the content moderation pipeline
    mod_pc,         \* "main", the next node to run, or "END"
    mod_state,      \* the ModerationState of the run
    mod_initial,    \* history: the state app.invoke was given
    mod_trace,      \* history: the nodes run by this invoke, in order
    mod_log,        \* moderation_log.jsonl
    \* ---- lesson 10, demo.py: the supervisor workflow
    sup_pc,         \* "main", the next node to run, "END" or "KeyError"
    sup_state,      \* the SupervisorState of the run
    sup_initial,    \* history: the state app.invoke was given
    sup_response,   \* history: what the LLM answered the supervisor
    sup_trace,      \* history: the nodes run by this invoke, in order
    \* ---- lesson 16, api.py: the Metrics object under a long run of requests
    mt_metrics,     \* metrics
    mt_response,    \* the body of the last response, if it was GET /metrics
    mt_history,     \* history: every duration recorded, in arrival order
    mt_singles,     \* history: number of requests recorded one by one
    mt_run,         \* history: requests of the run recorded
    \* ---- lesson 16, api.py: concurrent POST /query requests of one user
    cq_now,         \* datetime.now(), in seconds
    cq_stage,       \* number of requests in flight at each suspension point
    cq_arrivals,    \* history: number of requests received so far
    cq_requests,    \* rate_limiter.requests[user]
    cq_metrics,     \* metrics
    cq_status,      \* the HTTP status of the last response sent
    cq_admitted     \* history: the admissions of the last Window seconds

apiVars == <<clients, now, requests, metrics, response, admitted, invalid>>
expVars == <<exp_pc, exp_input, exp_state, exp_invokes, exp_trace>>
apVars == <<ap_pc, ap_state, ap_result, ap_final, ma_state, ma_result>>
srvVars == <<tasks, storage, stats, srv_now, tool_call>>
rvVars == <<rv_test, rv_pc, rv_state, rv_runs>>
mcVars == <<mc_program, mc_initialized, mc_pending, mc_started, mc_log, mc_call,
            mc_seq, cd_connected, cd_call>>
cbVars == <<cb_pc, cb_messages, cb_total_tokens, cb_turns>>
memVars == <<mem_pc, mem_messages, mem_preferences, mem_file, mem_saved>>
modVars == <<mod_pc, mod_state, mod_initial, mod_trace, mod_log>>
supVars == <<sup_pc, sup_state, sup_initial, sup_response, sup_trace>>
mtVars == <<mt_metrics, mt_response, mt_history, mt_singles, mt_run>>
cqVars == <<cq_now, cq_stage, cq_arrivals, cq_requests, cq_metrics, cq_status,
            cq_admitted>>

vars == <<apiVars, expVars, apVars, srvVars, rvVars, mcVars, cbVars, memVars,
    modVars, supVars, mtVars, cqVars>>

\* A step of one program leaves the variables of the other programs alone.
ApiAlone == UNCHANGED <<expVars, apVars, srvVars, rvVars, mcVars, cbVars,
    memVars, modVars, supVars, mtVars, cqVars>>
ExpAlone == UNCHANGED <<apiVars, apVars, srvVars, rvVars, mcVars, cbVars,
    memVars, modVars, supVars, mtVars, cqVars>>
ApAlone == UNCHANGED <<apiVars, expVars, srvVars, rvVars, mcVars, cbVars,
    memVars, modVars, supVars, mtVars, cqVars>>
SrvAlone == UNCHANGED <<apiVars, expVars, apVars, rvVars, mcVars, cbVars,
    memVars, modVars, supVars, mtVars, cqVars>>
RvAlone == UNCHANGED <<apiVars, expVars, apVars, srvVars, mcVars, cbVars,
    memVars, modVars, supVars, mtVars, cqVars>>
McAlone == UNCHANGED <<apiVars, expVars, apVars, srvVars, rvVars, cbVars,
    memVars, modVars, supVars, mtVars, cqVars>>
McSrvAlone == UNCHANGED <<apiVars, expVars, apVars, rvVars, cbVars, memVars,
    modVars, supVars, mtVars, cqVars>>
CbAlone == UNCHANGED <<apiVars, expVars, apVars, srvVars, rvVars, mcVars,
    memVars, modVars, supVars, mtVars, cqVars>>
MemAlone == UNCHANGED <<apiVars, expVars, apVars, srvVars, rvVars, mcVars,
    cbVars, modVars, supVars, mtVars, cqVars>>
ModAlone == UNCHANGED <<apiVars, expVars, apVars, srvVars, rvVars, mcVars,
    cbVars, memVars, supVars, mtVars, cqVars>>
SupAlone == UNCHANGED <<apiVars, expVars, apVars, srvVars, rvVars, mcVars,
    cbVars, memVars, modVars, mtVars, cqVars>>
MtAlone == UNCHANGED <<apiVars, expVars, apVars, srvVars, rvVars, mcVars,
    cbVars, memVars, modVars, supVars, cqVars>>
CqAlone == UNCHANGED <<apiVars, expVars, apVars, srvVars, rvVars, mcVars,
    cbVars, memVars, modVars, supVars, mtVars>>

(***************************************************************************)
(* Lesson 16: api.py                                                       *)
(***************************************************************************)

\* Bounds of the model: the clock runs from 0 to MaxTime in steps of TickStep.
MaxTime == 60
TickStep == 30
\* at most MaxInvalid requests of valid keys carry a body that fails validation
MaxInvalid == 1

\* RateLimiter.limits
FreeLimit == 10
PremiumLimit == 100
Window == 60
\* Metrics.record_request keeps the last MaxResponseTimes durations
MaxResponseTimes == 1000

NoKey == "<no X-API-Key header>"
FreeKey == "test-key-123"
PremiumKey == "prod-key-456"
WrongKey == "wrong-key-000"

Keys == {NoKey, WrongKey, FreeKey, PremiumKey}

VALID_API_KEYS ==
    [k \in {FreeKey, PremiumKey} |->
        IF k = FreeKey THEN [user |-> "test_user", tier |-> "free"]
                       ELSE [user |-> "prod_user", tier |-> "premium"]]

Users == {VALID_API_KEYS[k].user : k \in DOMAIN VALID_API_KEYS}

\* The client populations of a run: the unauthenticated and free-tier clients
\* together, or the premium client alone (its limit takes 100 requests to reach).
ClientSets == {{NoKey, WrongKey, FreeKey}, {PremiumKey}}

\* API_KEY_HEADER = APIKeyHeader(name="X-API-Key"): a request without the
\* header is answered 403 before verify_api_key runs.
API_KEY_HEADER(key) ==
    IF key = NoKey THEN [status |-> 403] ELSE [status |-> 0, api_key |-> key]

\* verify_api_key answering an unknown key like a missing header
verify_api_key_403(api_key) ==
    IF api_key \notin {FreeKey, PremiumKey}
    THEN [status |-> 403]
    ELSE [status |-> 0, user_info |-> VALID_API_KEYS[api_key]]

\* verify_api_key: 401 for a key that is not in VALID_API_KEYS, else the user info.
verify_api_key(api_key) ==
    IF api_key \notin DOMAIN VALID_API_KEYS
    THEN [status |-> 401]
    ELSE [status |-> 0, user_info |-> VALID_API_KEYS[api_key]]

\* self.limits.get(tier, self.limits["free"])
limits(tier) ==
    IF tier = "premium" THEN [requests |-> PremiumLimit, window |-> Window]
                        ELSE [requests |-> FreeLimit, window |-> Window]

\* [req_time for req_time in self.requests[user] if req_time > cutoff]
RemoveOld(reqs, cutoff) == SelectSeq(reqs, LAMBDA req_time : req_time > cutoff)

\* OverLimit with the comparison off by one
OverLimit_strict(n, limit) == n > limit

\* the limit test of RateLimiter.check_rate_limit
OverLimit(n, limit) == n >= limit

\* check_rate_limit whose limit check misses the timestamps that requests in
\* flight appended at the same instant
RateLimiter_check_rate_limit_blind(reqs, tier, t) ==
    LET limit_config == limits(tier)
        cutoff == t - limit_config.window
        kept == RemoveOld(reqs, cutoff)
        seen == SelectSeq(kept, LAMBDA req_time : req_time < t)
    IN  IF OverLimit(Len(seen), limit_config.requests)
        THEN [ok |-> FALSE, reqs |-> kept]
        ELSE [ok |-> TRUE, reqs |-> Append(kept, t)]

\* RateLimiter.check_rate_limit(user, tier) at time t on the list reqs:
\* the result and the new list.
RateLimiter_check_rate_limit(reqs, tier, t) ==
    LET limit_config == limits(tier)
        cutoff == t - limit_config.window
        kept == RemoveOld(reqs, cutoff)
    IN  IF OverLimit(Len(kept), limit_config.requests)
        THEN [ok |-> FALSE, reqs |-> kept]
        ELSE [ok |-> TRUE, reqs |-> Append(kept, t)]

\* response_times[:n] in place of response_times[-n:]
FirstN(s, n) == IF Len(s) > n THEN SubSeq(s, 1, n) ELSE s

\* Metrics.record_request
LastN(s, n) == IF Len(s) > n THEN SubSeq(s, Len(s) - n + 1, Len(s)) ELSE s

Metrics_record_request(m, duration, error) ==
    [total_requests |-> m.total_requests + 1,
     total_errors |-> IF error THEN m.total_errors + 1 ELSE m.total_errors,
     response_times |-> LastN(Append(m.response_times, duration), MaxResponseTimes)]

\* QueryRequest: the bounds of its fields
MinQueryLength == 1
MaxQueryLength == 500
DefaultMaxResults == 5
MinMaxResults == 1
MaxMaxResults == 20

\* JSON bodies of the requests: objects with an optional "query" (a string,
\* as characters) and an optional "max_results" (an Optional[int]: the
\* sequence of its integer, empty for null)
Bodies ==
    {[query |-> <<"t", "e", "s", "t">>],
     [query |-> <<"t", "e", "s", "t">>, max_results |-> <<3>>],
     [query |-> <<>>, max_results |-> <<>>],
     [max_results |-> <<21>>]}

\* QueryRequest(**body): 422 for a body that fails validation, else the model
QueryRequest(body) ==
    LET max_results == IF "max_results" \in DOMAIN body THEN body.max_results
                       ELSE <<DefaultMaxResults>>
    IN  IF \/ "query" \notin DOMAIN body
           \/ Len(body.query) < MinQueryLength
           \/ Len(body.query) > MaxQueryLength
           \/ \E i \in DOMAIN max_results :
                 max_results[i] < MinMaxResults \/ max_results[i] > MaxMaxResults
        THEN [status |-> 422]
        ELSE [status |-> 0, query |-> body.query, max_results |-> max_results]

\* The bodies a client sends: the premium client, whose limit takes 100
\* requests to reach, sends the bodies of test_api.py only.
BodiesOf(key) ==
    IF key = PremiumKey THEN {body \in Bodies : QueryRequest(body).status = 0}
    ELSE Bodies

\* POST /query with API key `key` and JSON body `body`: the dependencies
\* API_KEY_HEADER, verify_api_key and check_rate_limit, then the validation
\* of the body, then the handler body, which records the request in the
\* metrics. The body takes less than one clock tick, so the duration it
\* records is 0. The response is kept with the key of its request and
\* whether the request's body was a valid QueryRequest.
Query(key, body) ==
    /\ key \in clients
    /\ LET hdr == API_KEY_HEADER(key)
           auth == IF hdr.status = 0 THEN verify_api_key(hdr.api_key) ELSE hdr
           request == QueryRequest(body)
           valid == request.status = 0
       IN  IF auth.status # 0
           THEN /\ response' = [key |-> key, status |-> auth.status, valid |-> valid]
                /\ UNCHANGED <<requests, metrics, admitted, invalid>>
           ELSE LET user == auth.user_info.user
                    tier == auth.user_info.tier
                    rl == RateLimiter_check_rate_limit(requests[user], tier, now)
                IN  /\ requests' = [requests EXCEPT ![user] = rl.reqs]
                    /\ IF ~rl.ok
                       THEN /\ response' = [key |-> key, status |-> 429, valid |-> valid]
                            /\ UNCHANGED <<metrics, admitted, invalid>>
                       ELSE /\ admitted' = [admitted EXCEPT ![user] = Append(@, now)]
                            /\ IF ~valid
                               THEN /\ invalid < MaxInvalid
                                    /\ invalid' = invalid + 1
                                    /\ response' = [key |-> key, status |-> 422,
                                                    valid |-> valid]
                                    /\ UNCHANGED metrics
                               ELSE /\ metrics' = Metrics_record_request(metrics, 0, FALSE)
                                    /\ UNCHANGED invalid
                                    /\ response' = [key |-> key, status |-> 200,
                                                    valid |-> valid]
    /\ UNCHANGED <<clients, now>>

\* The clock advances; admissions older than the window leave the history.
Tick ==
    /\ now + TickStep <= MaxTime
    /\ now' = now + TickStep
    /\ admitted' = [u \in Users |->
                      SelectSeq(admitted[u], LAMBDA t : t > now' - Window)]
    /\ UNCHANGED <<clients, requests, metrics, response, invalid>>

InitApi ==
    /\ clients \in ClientSets
    /\ now = 0
    /\ requests = [u \in Users |-> <<>>]
    /\ metrics = [total_requests |-> 0, total_errors |-> 0, response_times |-> <<>>]
    /\ response = [key |-> NoKey, status |-> 0, valid |-> FALSE]
    /\ admitted = [u \in Users |-> <<>>]
    /\ invalid = 0

NextApi ==
    \/ \E key \in Keys : \E body \in BodiesOf(key) : Query(key, body) /\ ApiAlone
    \/ Tick /\ ApiAlone

\* api.py not serving: no client presents a key.
IdleApi ==
    /\ clients = {}
    /\ now = 0
    /\ requests = [u \in Users |-> <<>>]
    /\ metrics = [total_requests |-> 0, total_errors |-> 0, response_times |-> <<>>]
    /\ response = [key |-> NoKey, status |-> 0, valid |-> FALSE]
    /\ admitted = [u \in Users |-> <<>>]
    /\ invalid = 0

(***************************************************************************)
(* Lesson 11: challenge.py, the expense approval workflow                  *)
(*   categorize -> validate -> (human_approval | finalize),                *)
(*   human_approval -> finalize -> END,                                    *)
(* compiled with checkpointer=MemorySaver(), interrupt_before=             *)
(* ["human_approval"]. test_expense_system drives one thread: invoke, the  *)
(* human's update_state, invoke(None).                                     *)
(***************************************************************************)

\* Amounts of the expenses submitted, in dollars.
Amounts == {500, 1000, 1001, 2500, 6000, 6500, 12000}

\* Answers of the LLM to the categorisation prompt.
CategoryAnswers == {"travel", " Supplies\n", "Other"}

\* result.content.strip().lower()
StripLower(content) ==
    CASE content = " Supplies\n" -> "supplies"
      [] content = "Other" -> "other"
      [] OTHER -> content

\* Reasons the human gives for a rejection.
Reasons == {"over budget"}

NoExpense ==
    [amount |-> 0, description |-> "", category |-> "", is_suspicious |-> FALSE,
     requires_approval |-> FALSE, approved |-> FALSE, rejection_reason |-> "",
     final_status |-> ""]

\* The initial state handed to app.invoke (expense2 of test_expense_system,
\* for any amount and either value of approved).
Expense(amount, approved) ==
    [NoExpense EXCEPT !.amount = amount,
                      !.description = "New laptop for development",
                      !.approved = approved]

\* validate_expense: the basic rules, else the LLM's verdict
\* ("yes" in result.content.lower()).
IsSuspicious(amount, llm_yes) ==
    IF amount > 10000 THEN TRUE
    ELSE IF amount > 5000 /\ amount % 1000 = 0 THEN TRUE
    ELSE llm_yes

\* requires_approval without the suspicion
RequiresApproval_amount(amount, is_suspicious) == amount > 1000

\* state["requires_approval"] = amount > 1000 or is_suspicious
RequiresApproval(amount, is_suspicious) == amount > 1000 \/ is_suspicious

route_after_validation(state) ==
    IF state.requires_approval THEN "human_approval" ELSE "finalize"

\* interrupt_before=["human_approval"]
ExpInterruptBefore == {"human_approval"}

\* app.invoke(expense, config)
ExpInvoke(amount, approved) ==
    /\ exp_pc = "idle"
    /\ exp_input' = Expense(amount, approved)
    /\ exp_state' = Expense(amount, approved)
    /\ exp_pc' = "categorize"
    /\ exp_invokes' = 1
    /\ exp_trace' = <<"invoke">>

categorize_expense(content) ==
    /\ exp_pc = "categorize"
    /\ exp_state' = [exp_state EXCEPT !.category = StripLower(content)]
    /\ exp_pc' = "validate"
    /\ exp_trace' = Append(exp_trace, "categorize")
    /\ UNCHANGED <<exp_input, exp_invokes>>

\* validate_expense, then the conditional edge; the run is interrupted when
\* the next node is in interrupt_before.
validate_expense(llm_yes) ==
    /\ exp_pc = "validate"
    /\ LET amount == exp_state.amount
           is_suspicious == IsSuspicious(amount, llm_yes)
           new == [exp_state EXCEPT
                      !.is_suspicious = is_suspicious,
                      !.requires_approval = RequiresApproval(amount, is_suspicious)]
           next == route_after_validation(new)
       IN  /\ exp_state' = new
           /\ IF next \in ExpInterruptBefore
              THEN /\ exp_pc' = "interrupted"
                   /\ exp_trace' = exp_trace \o <<"validate", "interrupt">>
              ELSE /\ exp_pc' = next
                   /\ exp_trace' = Append(exp_trace, "validate")
    /\ UNCHANGED <<exp_input, exp_invokes>>

\* choice "1": app.update_state(config2, {"approved": True})
update_state_approve ==
    /\ exp_pc = "interrupted"
    /\ exp_state' = [exp_state EXCEPT !.approved = TRUE]
    /\ exp_pc' = "updated"
    /\ exp_trace' = Append(exp_trace, "update_state")
    /\ UNCHANGED <<exp_input, exp_invokes>>

\* otherwise: app.update_state(config2, {"approved": False, "rejection_reason": reason})
update_state_reject(reason) ==
    /\ exp_pc = "interrupted"
    /\ exp_state' = [exp_state EXCEPT !.approved = FALSE, !.rejection_reason = reason]
    /\ exp_pc' = "updated"
    /\ exp_trace' = Append(exp_trace, "update_state")
    /\ UNCHANGED <<exp_input, exp_invokes>>

\* app.invoke(None, config2): continues from the human_approval node
ExpResume ==
    /\ exp_pc = "updated"
    /\ exp_pc' = "human_approval"
    /\ exp_invokes' = exp_invokes + 1
    /\ exp_trace' = Append(exp_trace, "resume")
    /\ UNCHANGED <<exp_input, exp_state>>

human_approval_node ==
    /\ exp_pc = "human_approval"
    /\ exp_pc' = "finalize"
    /\ exp_trace' = Append(exp_trace, "human_approval")
    /\ UNCHANGED <<exp_input, exp_state, exp_invokes>>

finalize_expense ==
    /\ exp_pc = "finalize"
    /\ exp_state' = [exp_state EXCEPT !.final_status =
                        IF exp_state.approved THEN "APPROVED" ELSE "REJECTED"]
    /\ exp_pc' = "END"
    /\ exp_trace' = Append(exp_trace, "finalize")
    /\ UNCHANGED <<exp_input, exp_invokes>>

InitExpense ==
    /\ exp_pc = "idle"
    /\ exp_input = NoExpense
    /\ exp_state = NoExpense
    /\ exp_invokes = 0
    /\ exp_trace = <<>>

NextExpense ==
    \/ \E amount \in Amounts, approved \in BOOLEAN : ExpInvoke(amount, approved) /\ ExpAlone
    \/ \E content \in CategoryAnswers : categorize_expense(content) /\ ExpAlone
    \/ \E llm_yes \in BOOLEAN : validate_expense(llm_yes) /\ ExpAlone
    \/ update_state_approve /\ ExpAlone
    \/ \E reason \in Reasons : update_state_reject(reason) /\ ExpAlone
    \/ ExpResume /\ ExpAlone
    \/ human_approval_node /\ ExpAlone
    \/ finalize_expense /\ ExpAlone

(***************************************************************************)
(* Lesson 11: demo.py, main(): demo_simple_approval, then                  *)
(* demo_multiple_approvals. Both graphs are compiled with a MemorySaver    *)
(* checkpointer; app.invoke returns a dict built from the checkpointed     *)
(* values, and app.invoke(None, config) resumes from the checkpoint.       *)
(***************************************************************************)

\* Answers of the LLM to the analysis prompt.
AnalysisAnswers ==
    {"no risk", "low risk", "data loss", "irreversible", "needs backup",
     "legal hold", "needs audit", "unclear", "privacy impact", ""}

\* Answers of the LLM to the execution prompt.
ExecuteAnswers == {"Deleted 42 records"}

NoApproval == [request |-> "", analysis |-> "", approved |-> FALSE, response |-> ""]

\* initial_state of demo_simple_approval
initial_state ==
    [request |-> "Delete all user data older than 90 days", analysis |-> "",
     approved |-> FALSE, response |-> ""]

NoMulti ==
    [task |-> "", step |-> "", step1_approved |-> FALSE, step2_approved |-> FALSE,
     result |-> ""]

\* state of demo_multiple_approvals
multi_state == [NoMulti EXCEPT !.task = "Deploy to production"]

\* execute_action: state.get("approved", False) selects the LLM's answer or
\* "Request denied"
execute_action(state, content) ==
    IF state.approved
    THEN [state EXCEPT !.response = content]
    ELSE [state EXCEPT !.response = "Request denied"]

\* result = app.invoke(initial_state, config): the entry node is next
Demo1Invoke ==
    /\ ap_pc = "demo1"
    /\ ap_state' = initial_state
    /\ ap_pc' = "analyze"
    /\ UNCHANGED <<ap_result, ap_final, ma_state, ma_result>>

\* analyze_request; human_approval is in interrupt_before, so the invoke
\* returns the values of the checkpoint
analyze_request(content) ==
    /\ ap_pc = "analyze"
    /\ ap_state' = [ap_state EXCEPT !.analysis = content]
    /\ ap_result' = ap_state'
    /\ ap_pc' = "paused"
    /\ UNCHANGED <<ap_final, ma_state, ma_result>>

\* result["approved"] = True
Demo1Approve ==
    /\ ap_pc = "paused"
    /\ ap_result' = [ap_result EXCEPT !.approved = TRUE]
    /\ ap_pc' = "approved"
    /\ UNCHANGED <<ap_state, ap_final, ma_state, ma_result>>

\* final_result = app.invoke(None, config): resumes at human_approval
Demo1Resume ==
    /\ ap_pc = "approved"
    /\ ap_pc' = "human_approval"
    /\ UNCHANGED <<ap_state, ap_result, ap_final, ma_state, ma_result>>

human_approval ==
    /\ ap_pc = "human_approval"
    /\ ap_pc' = "execute"
    /\ UNCHANGED <<ap_state, ap_result, ap_final, ma_state, ma_result>>

\* execute_action, END: the invoke returns final_result
Demo1Execute(content) ==
    /\ ap_pc = "execute"
    /\ ap_state' = execute_action(ap_state, content)
    /\ ap_final' = ap_state'
    /\ ap_pc' = "demo2"
    /\ UNCHANGED <<ap_result, ma_state, ma_result>>

\* demo_multiple_approvals: result = app.invoke(state, config) is interrupted
\* before step1, the entry node (interrupt_before=["step1", "step2"])
Demo2Invoke ==
    /\ ap_pc = "demo2"
    /\ ma_state' = multi_state
    /\ ma_result' = multi_state
    /\ ap_pc' = "paused1"
    /\ UNCHANGED <<ap_state, ap_result, ap_final>>

\* result["step1_approved"] = True; result = app.invoke(None, config):
\* step1_check runs and the run is interrupted before step2
Demo2Approve1 ==
    /\ ap_pc = "paused1"
    /\ ma_result' = [ma_result EXCEPT !.step1_approved = TRUE]
    /\ ap_pc' = "step1"
    /\ UNCHANGED <<ap_state, ap_result, ap_final, ma_state>>

step1_check ==
    /\ ap_pc = "step1"
    /\ ma_state' = [ma_state EXCEPT !.step = "step1"]
    /\ ma_result' = ma_state'
    /\ ap_pc' = "paused2"
    /\ UNCHANGED <<ap_state, ap_result, ap_final>>

\* result["step2_approved"] = True; final = app.invoke(None, config)
Demo2Approve2 ==
    /\ ap_pc = "paused2"
    /\ ma_result' = [ma_result EXCEPT !.step2_approved = TRUE]
    /\ ap_pc' = "step2"
    /\ UNCHANGED <<ap_state, ap_result, ap_final, ma_state>>

step2_check ==
    /\ ap_pc = "step2"
    /\ ma_state' = [ma_state EXCEPT !.step = "step2"]
    /\ ap_pc' = "final_execution"
    /\ UNCHANGED <<ap_state, ap_result, ap_final, ma_result>>

final_execution ==
    /\ ap_pc = "final_execution"
    /\ ma_state' = [ma_state EXCEPT !.result = "Completed: Deploy to production"]
    /\ ma_result' = ma_state'
    /\ ap_pc' = "done"
    /\ UNCHANGED <<ap_state, ap_result, ap_final>>

InitApproval ==
    /\ ap_pc = "demo1"
    /\ ap_state = NoApproval
    /\ ap_result = NoApproval
    /\ ap_final = NoApproval
    /\ ma_state = NoMulti
    /\ ma_result = NoMulti

NextApproval ==
    \/ Demo1Invoke /\ ApAlone
    \/ \E content \in AnalysisAnswers : analyze_request(content) /\ ApAlone
    \/ Demo1Approve /\ ApAlone
    \/ Demo1Resume /\ ApAlone
    \/ human_approval /\ ApAlone
    \/ \E content \in ExecuteAnswers : Demo1Execute(content) /\ ApAlone
    \/ Demo2Invoke /\ ApAlone
    \/ Demo2Approve1 /\ ApAlone
    \/ step1_check /\ ApAlone
    \/ Demo2Approve2 /\ ApAlone
    \/ step2_check /\ ApAlone
    \/ final_execution /\ ApAlone

(***************************************************************************)
(* Lesson 14: server.py, the task-manager MCP server                       *)
(* Strings a handler strips (titles, descriptions) are sequences of        *)
(* characters; timestamps are the isoformat of the server's clock.         *)
(***************************************************************************)

\* Bounds: calls a server process serves before it is restarted, and the
\* range of the server's clock.
MaxCalls == 2
MaxClock == 1

\* Values of str(uuid.uuid4())[:8]
TaskIds == {"1a2b3c4d", "9f8e7d6c"}
\* A task id no task ever has (client_demo.py: "invalid-id")
UnknownId == "invalid-id"

None == "None"

\* datetime.now().isoformat()
isoformat(t) == ToString(t)

ToolNames ==
    {"add_task", "list_tasks", "complete_task", "delete_task", "update_task",
     "get_stats"}

\* Parameters of the handlers (inspect.signature), and those without default.
Params(name) ==
    CASE name = "add_task" -> {"title", "description"}
      [] name = "list_tasks" -> {"status"}
      [] name = "complete_task" -> {"task_id"}
      [] name = "delete_task" -> {"task_id"}
      [] name = "update_task" -> {"task_id", "title", "description"}
      [] OTHER -> {}

Required(name) ==
    CASE name = "add_task" -> {"title"}
      [] name \in {"complete_task", "delete_task", "update_task"} -> {"task_id"}
      [] OTHER -> {}

NoArgs == [k \in {} |-> ""]

\* The arguments clients send.
AddArgs == {[title |-> t] : t \in {<<>>, <<" ", " ">>, <<" ", "a", " ">>}} \cup {NoArgs}
ListArgs == {NoArgs} \cup {[status |-> x] : x \in {"completed", "invalid"}}
IdArgs == {[task_id |-> i] : i \in TaskIds \cup {UnknownId}} \cup {NoArgs}
UpdateArgs ==
    {[task_id |-> i] : i \in TaskIds \cup {UnknownId}}
    \cup {[task_id |-> i, title |-> <<" ", "b">>, description |-> <<"d", " ">>] :
             i \in TaskIds}

\* str.strip()
RECURSIVE lstrip(_)
lstrip(str) ==
    IF str # <<>> /\ Head(str) = " " THEN lstrip(Tail(str)) ELSE str

RECURSIVE rstrip(_)
rstrip(str) ==
    IF str # <<>> /\ str[Len(str)] = " " THEN rstrip(SubSeq(str, 1, Len(str) - 1))
    ELSE str

strip(str) == rstrip(lstrip(str))

\* json.dump of one field of asdict(task), and json.load of it
JsonOf(v) == IF v = None THEN [json |-> "null"] ELSE [json |-> "string", value |-> v]
OfJson(j) == IF j.json = "null" THEN None ELSE j.value

NoFile == [exists |-> FALSE]
\* a file whose content json.load rejects (empty, or cut off in the middle)
Unparsable == [exists |-> TRUE, parses |-> FALSE]

\* What open(file, 'w') and the write do during a call: "ok" writes the
\* file, "denied" makes open raise (the file stays as it is), "full" makes
\* the write raise after open has truncated the file.
DiskStates == {"ok", "denied", "full"}

\* What open(file, 'r') does: "ok" opens the file, "denied" makes open
\* raise.
ReadStates == {"ok", "denied"}

\* json.dump(data, f) of self.tasks
Dumped(T) ==
    [exists |-> TRUE,
     parses |-> TRUE,
     data |-> [task_id \in DOMAIN T |->
                 [id |-> [json |-> "string", value |-> T[task_id].id],
                  title |-> [json |-> "string", value |-> T[task_id].title],
                  description |-> [json |-> "string", value |-> T[task_id].description],
                  status |-> [json |-> "string", value |-> T[task_id].status],
                  created_at |-> JsonOf(T[task_id].created_at),
                  completed_at |-> JsonOf(T[task_id].completed_at)]]]

\* _save_tasks: the file after the call; an exception of open or json.dump
\* is caught and printed
_save_tasks(self, T) ==
    CASE self.disk = "ok" -> Dumped(T)
      [] self.disk = "denied" -> self.storage
      [] OTHER -> Unparsable

\* _load_tasks: self.tasks read from the file; {} without a file, and {}
\* when open raises or json.load rejects the content (the exception is caught
\* and printed)
_load_tasks(file, io) ==
    IF file.exists
    THEN IF io = "ok" /\ file.parses
         THEN [task_id \in DOMAIN file.data |->
                 [id |-> file.data[task_id].id.value,
                  title |-> file.data[task_id].title.value,
                  description |-> file.data[task_id].description.value,
                  status |-> file.data[task_id].status.value,
                  created_at |-> OfJson(file.data[task_id].created_at),
                  completed_at |-> OfJson(file.data[task_id].completed_at)]]
         ELSE [task_id \in {} |-> None]
    ELSE [task_id \in {} |-> None]

\* self.tasks[task_id] = task
Store(T, task_id, task) ==
    [k \in DOMAIN T \cup {task_id} |-> IF k = task_id THEN task ELSE T[k]]

\* del self.tasks[task_id]
Delete(T, task_id) == [k \in DOMAIN T \ {task_id} |-> T[k]]

\* Outcomes of a handler: an exception, or a value with the new tasks and file.
Raise(error, self) ==
    [raised |-> TRUE, error |-> error, tasks |-> self.tasks, storage |-> self.storage]
Return(value, T, file) ==
    [raised |-> FALSE, value |-> value, tasks |-> T, storage |-> file]

add_task(self, args, task_id, t) ==
    LET title == args.title
        description == IF "description" \in DOMAIN args THEN args.description ELSE <<>>
    IN  IF title = <<>> \/ Len(strip(title)) = 0
        THEN Raise("Title cannot be empty", self)
        ELSE LET task == [id |-> task_id, title |-> strip(title),
                          description |-> strip(description), status |-> "pending",
                          created_at |-> isoformat(t), completed_at |-> None]
                 T == Store(self.tasks, task_id, task)
             IN  Return([success |-> TRUE, task_id |-> task_id], T, _save_tasks(self, T))

list_tasks(self, args) ==
    LET status == IF "status" \in DOMAIN args THEN args.status ELSE "all"
        listed == IF status = "all" THEN DOMAIN self.tasks
                  ELSE {i \in DOMAIN self.tasks : self.tasks[i].status = status}
    IN  IF status \notin {"all", "pending", "completed"}
        THEN Raise("Status must be 'all', 'pending', or 'completed'", self)
        ELSE Return([count |-> Cardinality(listed), tasks |-> listed],
                    self.tasks, self.storage)

complete_task(self, args, t) ==
    LET task_id == args.task_id
    IN  IF task_id \notin DOMAIN self.tasks
        THEN Raise("Task not found", self)
        ELSE IF self.tasks[task_id].status = "completed"
        THEN Return([success |-> FALSE, message |-> "already completed"],
                    self.tasks, self.storage)
        ELSE LET T == [self.tasks EXCEPT ![task_id].status = "completed",
                                         ![task_id].completed_at = isoformat(t)]
             IN  Return([success |-> TRUE, message |-> "marked as completed"],
                        T, _save_tasks(self, T))

delete_task(self, args) ==
    LET task_id == args.task_id
    IN  IF task_id \notin DOMAIN self.tasks
        THEN Raise("Task not found", self)
        ELSE LET T == Delete(self.tasks, task_id)
             IN  Return([success |-> TRUE, message |-> "deleted successfully"],
                        T, _save_tasks(self, T))

update_task(self, args) ==
    LET task_id == args.task_id
    IN  IF task_id \notin DOMAIN self.tasks
        THEN Raise("Task not found", self)
        ELSE LET task == self.tasks[task_id]
                 t1 == IF "title" \in DOMAIN args /\ args.title # <<>>
                       THEN [task EXCEPT !.title = strip(args.title)] ELSE task
                 t2 == IF "description" \in DOMAIN args
                       THEN [t1 EXCEPT !.description = strip(args.description)] ELSE t1
                 T == [self.tasks EXCEPT ![task_id] = t2]
             IN  Return([success |-> TRUE, message |-> "updated successfully", task |-> t2],
                        T, _save_tasks(self, T))

get_stats(self) ==
    Return([total_tasks |-> Cardinality(DOMAIN self.tasks),
            pending_tasks |->
                Cardinality({i \in DOMAIN self.tasks : self.tasks[i].status = "pending"}),
            completed_tasks |->
                Cardinality({i \in DOMAIN self.tasks : self.tasks[i].status = "completed"}),
            total_tool_calls |-> self.stats.total_calls,
            tools_called |-> self.stats.tools_called],
           self.tasks, self.storage)

\* await handler(self, **arguments): a TypeError when the arguments do not fit
\* the handler's parameters, else the handler
handler(name, self, args, task_id, t) ==
    IF ~(Required(name) \subseteq DOMAIN args /\ DOMAIN args \subseteq Params(name))
    THEN Raise("TypeError", self)
    ELSE CASE name = "add_task" -> add_task(self, args, task_id, t)
           [] name = "list_tasks" -> list_tasks(self, args)
           [] name = "complete_task" -> complete_task(self, args, t)
           [] name = "delete_task" -> delete_task(self, args)
           [] name = "update_task" -> update_task(self, args)
           [] OTHER -> get_stats(self)

\* call_tool without its try/except
Response_uncaught(r) ==
    IF r.raised
    THEN [raised |-> TRUE, error |-> r.error]
    ELSE [raised |-> FALSE, result |-> [content |-> r.value]]

\* call_tool's try/except: the response for a handler outcome
Response(r) ==
    IF r.raised
    THEN [raised |-> FALSE,
          result |-> [content |-> [error |-> r.error], isError |-> TRUE]]
    ELSE [raised |-> FALSE, result |-> [content |-> r.value]]

\* MCPServer.call_tool(name, arguments); task_id is the uuid add_task draws
\* and io what writing tasks.json does during the call
call_tool(name, args, task_id, io) ==
    /\ IF name \notin ToolNames
       THEN /\ tool_call' = [name |-> name, args |-> args, raised |-> FALSE,
                             result |-> [content |-> [error |-> "Unknown tool"],
                                         isError |-> TRUE]]
            /\ UNCHANGED <<tasks, storage, stats>>
       ELSE /\ stats.total_calls < MaxCalls
            /\ stats' = [total_calls |-> stats.total_calls + 1,
                         tools_called |->
                            [n \in DOMAIN stats.tools_called \cup {name} |->
                                IF n = name
                                THEN (IF n \in DOMAIN stats.tools_called
                                      THEN stats.tools_called[n] ELSE 0) + 1
                                ELSE stats.tools_called[n]]]
            /\ LET self == [tasks |-> tasks, storage |-> storage, stats |-> stats',
                            disk |-> io]
                   r == handler(name, self, args, task_id, srv_now)
               IN  /\ tool_call' = [name |-> name, args |-> args] @@ Response(r)
                   /\ tasks' = r.tasks
                   /\ storage' = r.storage
    /\ UNCHANGED srv_now

\* The server process is restarted: MCPServer.__init__ with _load_tasks; io
\* is what opening tasks.json for reading does
Restart(io) ==
    /\ tasks' = _load_tasks(storage, io)
    /\ stats' = [total_calls |-> 0, tools_called |-> NoArgs]
    /\ tool_call' = [name |-> "", args |-> NoArgs, raised |-> FALSE,
                     result |-> [content |-> NoArgs]]
    /\ UNCHANGED <<storage, srv_now>>

TickServer ==
    /\ srv_now < MaxClock
    /\ srv_now' = srv_now + 1
    /\ UNCHANGED <<tasks, storage, stats, tool_call>>

\* MCPServer("task-manager-server") in a directory without tasks.json
InitServer ==
    /\ storage = NoFile
    /\ tasks = _load_tasks(NoFile, "ok")
    /\ stats = [total_calls |-> 0, tools_called |-> NoArgs]
    /\ srv_now = 0
    /\ tool_call = [name |-> "", args |-> NoArgs, raised |-> FALSE,
                    result |-> [content |-> NoArgs]]

NextServer ==
    \/ \E args \in AddArgs, id \in TaskIds, io \in DiskStates :
          call_tool("add_task", args, id, io) /\ SrvAlone
    \/ \E args \in ListArgs : call_tool("list_tasks", args, None, "ok") /\ SrvAlone
    \/ \E args \in IdArgs, io \in DiskStates :
          call_tool("complete_task", args, None, io) /\ SrvAlone
    \/ \E args \in IdArgs, io \in DiskStates :
          call_tool("delete_task", args, None, io) /\ SrvAlone
    \/ \E args \in UpdateArgs, io \in DiskStates :
          call_tool("update_task", args, None, io) /\ SrvAlone
    \/ call_tool("get_stats", NoArgs, None, "ok") /\ SrvAlone
    \/ call_tool("no_such_tool", NoArgs, None, "ok") /\ SrvAlone
    \/ \E io \in ReadStates : Restart(io) /\ SrvAlone
    \/ TickServer /\ SrvAlone

(***************************************************************************)
(* Lesson 12: solution.py, the self-reflecting code review agent           *)
(*   generate -> critique -> (revise -> critique)* -> check -> END         *)
(* main() invokes the agent once per test case. Scores are in hundredths.  *)
(***************************************************************************)

\* len(test_cases) in main()
TestCases == 3

\* should_revise: quality_score >= 0.8, revision_count >= 3
QualityThreshold == 80
MaxRevisions == 3

\* What the LLM writes as quality score in a critique ("none": no number the
\* pattern 0\.\d+|1\.0|^1$|^0$ finds on a score line).
ScoreTexts == {"none", "0.3", "0.79", "0.8", "0.95", "1.0"}

\* critique_code: score = 0.5 by default, else float(numbers[0])
ExtractScore(text) ==
    CASE text = "0.3" -> 30
      [] text = "0.79" -> 79
      [] text = "0.8" -> 80
      [] text = "0.95" -> 95
      [] text = "1.0" -> 100
      [] OTHER -> 50

\* the initial state main() passes to agent.invoke
NewReview ==
    [code_ok |-> FALSE, critique |-> "", revision_count |-> 0, quality_score |-> 0]

NoRuns == [generate |-> 0, critique |-> 0, revise |-> 0, check |-> 0]

Ran1(node) == [rv_runs EXCEPT ![node] = @ + 1]

\* should_revise with revision_count > 3
should_revise_gt(state) ==
    IF state.quality_score >= QualityThreshold THEN "done"
    ELSE IF state.revision_count > MaxRevisions THEN "done"
    ELSE "revise"

should_revise(state) ==
    IF state.quality_score >= QualityThreshold THEN "done"
    ELSE IF state.revision_count >= MaxRevisions THEN "done"
    ELSE "revise"

\* the conditional edge map {"revise": "revise", "done": "check"}
AfterCritique(state) == IF should_revise(state) = "revise" THEN "revise" ELSE "check"

\* agent.invoke({...}) for the next test case
RvInvoke ==
    /\ rv_pc = "main"
    /\ rv_state' = NewReview
    /\ rv_runs' = NoRuns
    /\ rv_pc' = "generate"
    /\ UNCHANGED rv_test

\* generate_code: the LLM's code parses (ast.parse) or not
generate_code(code_ok) ==
    /\ rv_pc = "generate"
    /\ rv_state' = [rv_state EXCEPT !.code_ok = code_ok, !.revision_count = 0,
                                    !.quality_score = 0]
    /\ rv_runs' = Ran1("generate")
    /\ rv_pc' = "critique"
    /\ UNCHANGED rv_test

\* critique_code: score 0.0 on a syntax error, else the score extracted from
\* the LLM's critique; then the conditional edge
critique_code(text) ==
    /\ rv_pc = "critique"
    /\ rv_state' =
          IF ~rv_state.code_ok
          THEN [rv_state EXCEPT !.quality_score = 0, !.critique = "Syntax error"]
          ELSE [rv_state EXCEPT !.quality_score = ExtractScore(text), !.critique = text]
    /\ rv_runs' = Ran1("critique")
    /\ rv_pc' = AfterCritique(rv_state')
    /\ UNCHANGED rv_test

revise_code(code_ok) ==
    /\ rv_pc = "revise"
    /\ rv_state' = [rv_state EXCEPT !.code_ok = code_ok,
                                    !.revision_count = @ + 1]
    /\ rv_runs' = Ran1("revise")
    /\ rv_pc' = "critique"
    /\ UNCHANGED rv_test

\* check_quality: score 0.0 when the final code does not parse
check_quality ==
    /\ rv_pc = "check"
    /\ rv_state' = IF ~rv_state.code_ok
                   THEN [rv_state EXCEPT !.quality_score = 0] ELSE rv_state
    /\ rv_runs' = Ran1("check")
    /\ rv_pc' = "END"
    /\ UNCHANGED rv_test

\* llm.invoke raises in a node that calls the LLM (critique_code calls it only
\* for code that parses); agent.invoke propagates it to main()'s except.
LlmRaises ==
    /\ \/ rv_pc \in {"generate", "revise"}
       \/ rv_pc = "critique" /\ rv_state.code_ok
    /\ rv_pc' = "failed"
    /\ UNCHANGED <<rv_test, rv_state, rv_runs>>

\* main(): the next test case, or the end of the loop
NextTestCase ==
    /\ rv_pc \in {"END", "failed"}
    /\ IF rv_test < TestCases
       THEN rv_test' = rv_test + 1 /\ rv_pc' = "main"
       ELSE rv_test' = rv_test /\ rv_pc' = "done"
    /\ UNCHANGED <<rv_state, rv_runs>>

InitReview ==
    /\ rv_test = 1
    /\ rv_pc = "main"
    /\ rv_state = NewReview
    /\ rv_runs = NoRuns

NextReview ==
    \/ RvInvoke /\ RvAlone
    \/ \E code_ok \in BOOLEAN : generate_code(code_ok) /\ RvAlone
    \/ \E text \in ScoreTexts : critique_code(text) /\ RvAlone
    \/ \E code_ok \in BOOLEAN : revise_code(code_ok) /\ RvAlone
    \/ check_quality /\ RvAlone
    \/ LlmRaises /\ RvAlone
    \/ NextTestCase /\ RvAlone

(***************************************************************************)
(* Lesson 13: demo.py, MCPClient on a MockMCPServer; lesson 14:            *)
(* client_demo.py, MCPClient on the task-manager server. All coroutines    *)
(* run on one event loop: a coroutine runs alone up to its next await that *)
(* suspends, and only initialize() has one (asyncio.sleep).                *)
(***************************************************************************)

MaxInitialize == 2
MaxClientCalls == 2

McTools == {"read_file", "write_file", "list_files"}

\* strings the code measures or searches are sequences of characters
ReadmeUri == <<"f", "i", "l", "e", ":", "/", "/", "/", "d", "o", "c",
               "s", "/", "r", "e", "a", "d", "m", "e", ".", "m", "d">>
SettingsUri == <<"f", "i", "l", "e", ":", "/", "/", "/", "c", "o", "n",
                 "f", "i", "g", "/", "s", "e", "t", "t", "i", "n", "g",
                 "s", ".", "j", "s", "o", "n">>
McResources == {ReadmeUri, SettingsUri}

\* tool names, arguments and URIs the callers pass
McToolNames == McTools \cup {"invalid_tool"}
DocsPath == <<"/", "d", "o", "c", "s">>
ResultPath == <<"/", "o", "u", "t", "p", "u", "t", "/", "r", "e", "s",
                "u", "l", "t", ".", "t", "x", "t">>
HelloContent == <<"H", "e", "l", "l", "o", " ", "f", "r", "o", "m", " ",
                  "M", "C", "P", "!">>
McArgs == {NoArgs, [path |-> DocsPath], [path |-> ResultPath, content |-> HelloContent]}
McUris == McResources \cup
    {<<"f", "i", "l", "e", ":", "/", "/", "/", "d", "o", "c", "s", "/",
       "R", "E", "A", "D", "M", "E", ".", "m", "d">>,
     <<"f", "i", "l", "e", ":", "/", "/", "/", "x">>}

\* str.lower()
LowerChar(c) ==
    CASE c = "A" -> "a" [] c = "B" -> "b" [] c = "C" -> "c"
      [] c = "D" -> "d" [] c = "E" -> "e" [] c = "F" -> "f"
      [] c = "G" -> "g" [] c = "H" -> "h" [] c = "I" -> "i"
      [] c = "J" -> "j" [] c = "K" -> "k" [] c = "L" -> "l"
      [] c = "M" -> "m" [] c = "N" -> "n" [] c = "O" -> "o"
      [] c = "P" -> "p" [] c = "Q" -> "q" [] c = "R" -> "r"
      [] c = "S" -> "s" [] c = "T" -> "t" [] c = "U" -> "u"
      [] c = "V" -> "v" [] c = "W" -> "w" [] c = "X" -> "x"
      [] c = "Y" -> "y" [] c = "Z" -> "z"
      [] OTHER -> c

lower(str) == [i \in 1..Len(str) |-> LowerChar(str[i])]

\* word in text
In(word, text) ==
    \E t \in {text} :
        \E i \in 1..(Len(t) - Len(word) + 1) : SubSeq(t, i, i + Len(word) - 1) = word

\* arguments.get(key, "")
Get(args, key) == IF key \in DOMAIN args THEN args[key] ELSE <<>>

\* len(content)
StrLen(str) == Len(str)

\* word in uri.lower()
InLower(word, uri) == In(word, lower(uri))

Returned(method, value) == [method |-> method, outcome |-> "returned", value |-> value]
Raised(method, exc, msg) == [method |-> method, outcome |-> exc, value |-> [message |-> msg]]

MockMCPServer_list_tools == Returned("list_tools", [tools |-> McTools])

MockMCPServer_list_resources == Returned("list_resources", [resources |-> McResources])

MockMCPServer_call_tool(name, arguments) ==
    IF name = "read_file"
    THEN Returned("call_tool", [text |-> "Contents of", path |-> Get(arguments, "path")])
    ELSE IF name = "write_file"
    THEN Returned("call_tool", [text |-> "Successfully wrote",
                                bytes |-> StrLen(Get(arguments, "content")),
                                path |-> Get(arguments, "path")])
    ELSE IF name = "list_files"
    THEN Returned("call_tool", [text |-> "Files in", path |-> Get(arguments, "path")])
    ELSE Raised("call_tool", "ValueError", "Unknown tool")

MockMCPServer_read_resource(uri) ==
    IF InLower(<<"r", "e", "a", "d", "m", "e">>, uri)
    THEN Returned("read_resource", [text |-> "# Project README"])
    ELSE IF InLower(<<"s", "e", "t", "t", "i", "n", "g", "s">>, uri)
    THEN Returned("read_resource", [text |-> "{theme: dark, language: en}"])
    ELSE Returned("read_resource", [text |-> "Resource content for", uri |-> uri])

NoCall == [method |-> "", outcome |-> "", value |-> NoArgs]

\* await client.initialize(), up to the suspension in asyncio.sleep(0.1)
MCPClient_initialize_begin ==
    /\ mc_program = "lesson13"
    /\ mc_started < MaxInitialize
    /\ mc_started' = mc_started + 1
    /\ mc_pending' = mc_pending + 1
    /\ UNCHANGED <<mc_program, mc_initialized, mc_log, mc_call, mc_seq,
                   cd_connected, cd_call>>

\* initialize() resumed after the sleep: self.initialized = True
MCPClient_initialize_end ==
    /\ mc_pending > 0
    /\ mc_pending' = mc_pending - 1
    /\ mc_initialized' = TRUE
    /\ UNCHANGED <<mc_program, mc_started, mc_log, mc_call, mc_seq,
                   cd_connected, cd_call>>

\* A client method without the initialized check.
Forward_unguarded(method, target, reply) ==
    /\ mc_program = "lesson13"
    /\ mc_seq' = 1 - mc_seq
    /\ Len(mc_log) < MaxClientCalls
    /\ mc_log' = Append(mc_log, [method |-> method, target |-> target])
    /\ mc_call' = reply
    /\ UNCHANGED <<mc_program, mc_initialized, mc_pending, mc_started,
                   cd_connected, cd_call>>

\* A client method: the initialized check, then the request to the server.
\* target is the tool name or URI and reply the server's answer to it.
Forward(method, target, reply) ==
    /\ mc_program = "lesson13"
    /\ mc_seq' = 1 - mc_seq
    /\ IF ~mc_initialized
       THEN /\ mc_call' = Raised(method, "RuntimeError", "Client not initialized")
            /\ UNCHANGED mc_log
       ELSE /\ Len(mc_log) < MaxClientCalls
            /\ mc_log' = Append(mc_log, [method |-> method, target |-> target])
            /\ mc_call' = reply
    /\ UNCHANGED <<mc_program, mc_initialized, mc_pending, mc_started,
                   cd_connected, cd_call>>

MCPClient_list_tools == Forward("list_tools", "", MockMCPServer_list_tools)

MCPClient_list_resources ==
    Forward("list_resources", "", MockMCPServer_list_resources)

MCPClient_call_tool(name, arguments) ==
    Forward("call_tool", name, MockMCPServer_call_tool(name, arguments))

MCPClient_read_resource(uri) ==
    Forward("read_resource", uri, MockMCPServer_read_resource(uri))

\* ---- lesson 14, client_demo.py

\* connect(): no await inside
TaskClient_connect ==
    /\ mc_program = "lesson14"
    /\ cd_connected' = TRUE
    /\ UNCHANGED <<mc_program, mc_initialized, mc_pending, mc_started, mc_log,
                   mc_call, mc_seq, cd_call>>

TaskClient_list_tools ==
    /\ mc_program = "lesson14"
    /\ mc_seq' = 1 - mc_seq
    /\ cd_call' = IF ~cd_connected
                  THEN Raised("list_tools", "RuntimeError", "Not connected")
                  ELSE Returned("list_tools", [tools |-> ToolNames])
    /\ UNCHANGED <<mc_program, mc_initialized, mc_pending, mc_started, mc_log,
                   mc_call, cd_connected>>

\* call_tool: forwarded to MCPServer.call_tool when connected
TaskClient_call_tool(name, arguments, task_id, io) ==
    /\ mc_program = "lesson14"
    /\ mc_seq' = 1 - mc_seq
    /\ IF ~cd_connected
       THEN /\ cd_call' = Raised("call_tool", "RuntimeError", "Not connected")
            /\ UNCHANGED srvVars
       ELSE /\ call_tool(name, arguments, task_id, io)
            /\ cd_call' = Returned("call_tool", tool_call'.result)
    /\ UNCHANGED <<mc_program, mc_initialized, mc_pending, mc_started, mc_log,
                   mc_call, cd_connected>>

\* python demo.py (lesson 13) or python client_demo.py (lesson 14)
RunClientProgram(program) ==
    /\ mc_program = "none"
    /\ mc_program' = program
    /\ UNCHANGED <<mc_initialized, mc_pending, mc_started, mc_log, mc_call,
                   mc_seq, cd_connected, cd_call>>

InitClient ==
    /\ mc_program = "none"
    /\ mc_initialized = FALSE
    /\ mc_pending = 0
    /\ mc_started = 0
    /\ mc_log = <<>>
    /\ mc_call = NoCall
    /\ mc_seq = 0
    /\ cd_connected = FALSE
    /\ cd_call = NoCall

NextClient ==
    \/ \E program \in {"lesson13", "lesson14"} : RunClientProgram(program) /\ McAlone
    \/ MCPClient_initialize_begin /\ McAlone
    \/ MCPClient_initialize_end /\ McAlone
    \/ MCPClient_list_tools /\ McAlone
    \/ MCPClient_list_resources /\ McAlone
    \/ \E name \in McToolNames, arguments \in McArgs :
          MCPClient_call_tool(name, arguments) /\ McAlone
    \/ \E uri \in McUris : MCPClient_read_resource(uri) /\ McAlone
    \/ TaskClient_connect /\ McAlone
    \/ TaskClient_list_tools /\ McAlone
    \/ \E arguments \in AddArgs, id \in TaskIds, io \in DiskStates :
          TaskClient_call_tool("add_task", arguments, id, io) /\ McSrvAlone
    \/ \E arguments \in IdArgs, io \in DiskStates :
          TaskClient_call_tool("complete_task", arguments, None, io) /\ McSrvAlone

(***************************************************************************)
(* Lesson 1: solution.py, the CLI chatbot with history                     *)
(***************************************************************************)

MaxTurns == 7

\* len(messages) > 10 ... messages[-10:]
HistoryLimit == 10

\* what the user types at "You: "
UserInputs ==
    {<<>>, <<" ", " ">>, <<"Q", "u", "i", "t", " ">>,
     <<"/", "C", "L", "E", "A", "R">>, <<" ", "H", "i">>}

\* what the model streams (full_response), as characters
Responses == {<<>>, <<"s", "u", "r", "e", "!">>}

estimate_tokens(text) == Len(text) \div 4

\* messages[-n:]
Keep(msgs, n) == IF Len(msgs) > n THEN SubSeq(msgs, Len(msgs) - n + 1, Len(msgs)) ELSE msgs

\* one pass of the loop from input() to the call of chat()
ChatbotInput(raw) ==
    /\ cb_pc = "input"
    /\ LET user_input == strip(raw)
       IN  IF user_input = <<>>
           THEN UNCHANGED cbVars
           ELSE IF lower(user_input) = <<"q", "u", "i", "t">>
           THEN cb_pc' = "exit" /\ UNCHANGED <<cb_messages, cb_total_tokens, cb_turns>>
           ELSE IF lower(user_input) = <<"/", "c", "l", "e", "a", "r">>
           THEN /\ cb_messages' = <<>>
                /\ cb_total_tokens' = 0
                /\ UNCHANGED <<cb_pc, cb_turns>>
           ELSE /\ cb_turns < MaxTurns
                /\ cb_messages' =
                      Keep(Append(cb_messages, [role |-> "user", content |-> user_input]),
                           HistoryLimit)
                /\ cb_turns' = cb_turns + 1
                /\ cb_pc' = "chat"
                /\ UNCHANGED cb_total_tokens

\* the stream ended: the assistant's response is added to the history
ChatbotResponse(full_response) ==
    /\ cb_pc = "chat"
    /\ cb_messages' = Append(cb_messages, [role |-> "assistant", content |-> full_response])
    /\ cb_total_tokens' = cb_total_tokens + estimate_tokens(full_response)
    /\ cb_pc' = "input"
    /\ UNCHANGED cb_turns

\* chat() raised: messages.pop()
ChatbotError ==
    /\ cb_pc = "chat"
    /\ cb_messages' = SubSeq(cb_messages, 1, Len(cb_messages) - 1)
    /\ cb_pc' = "input"
    /\ UNCHANGED <<cb_total_tokens, cb_turns>>

InitChatbot ==
    /\ cb_pc = "input"
    /\ cb_messages = <<>>
    /\ cb_total_tokens = 0
    /\ cb_turns = 0

NextChatbot ==
    \/ \E raw \in UserInputs : ChatbotInput(raw) /\ CbAlone
    \/ \E full_response \in Responses : ChatbotResponse(full_response) /\ CbAlone
    \/ ChatbotError /\ CbAlone

(***************************************************************************)
(* Lesson 3: solution.py, the personality chatbot with persistent memory   *)
(***************************************************************************)

MaxExchanges == 2

\* what the user says, and what the bot answers
UserTexts == {"My name is Ann", "I love Jazz.", "call me Bob, I like chess"}
BotTexts == {"Ahoy!", "Arr, matey"}

\* re.search over name_patterns on user_input.lower(), group(1).capitalize()
NameIn(user_input) ==
    CASE user_input = "My name is Ann" -> "Ann"
      [] user_input = "call me Bob, I like chess" -> "Bob"
      [] OTHER -> None

\* re.search over interest_patterns on user_input.lower(), group(1).strip()
InterestIn(user_input) ==
    CASE user_input = "I love Jazz." -> "jazz"
      [] user_input = "call me Bob, I like chess" -> "chess"
      [] OTHER -> None

\* preferences[key] = value
SetKey(dict, key, value) ==
    [k \in DOMAIN dict \cup {key} |-> IF k = key THEN value ELSE dict[k]]

Contains(list, x) == \E i \in 1..Len(list) : list[i] = x

extract_preferences(user_input, preferences) ==
    LET name == NameIn(user_input)
        interest == InterestIn(user_input)
        p1 == IF name # None /\ name \notin {"a", "an", "the"}
              THEN SetKey(preferences, "name", name) ELSE preferences
        p2 == IF interest # None /\ "interests" \notin DOMAIN p1
              THEN SetKey(p1, "interests", <<>>) ELSE p1
    IN  IF interest # None /\ ~Contains(p2["interests"], interest)
        THEN SetKey(p2, "interests", Append(p2["interests"], interest))
        ELSE p2

HumanMessage(content) == [class |-> "HumanMessage", content |-> content]
AIMessage(content) == [class |-> "AIMessage", content |-> content]

\* msg.type
TypeOf(msg) == IF msg.class = "HumanMessage" THEN "human" ELSE "ai"

NoMemoryFile == [exists |-> FALSE]
\* a MEMORY_FILE json.load rejects: empty, or cut off in the middle
CutMemoryFile == [exists |-> TRUE, parses |-> FALSE]

\* save_memory: MEMORY_FILE after the call and whether the call raised (it
\* has no try/except). io is what open(MEMORY_FILE, "w") and json.dump do:
\* "ok" writes the JSON, "denied" makes open raise (the file stays as it is),
\* "full" makes the write raise after open has truncated the file.
save_memory(memory, preferences, file, io) ==
    CASE io = "ok" ->
            [raised |-> FALSE,
             file |-> [exists |-> TRUE,
                       parses |-> TRUE,
                       data |-> [messages |->
                                    [i \in 1..Len(memory) |->
                                        [type |-> TypeOf(memory[i]),
                                         content |-> memory[i].content]],
                                 preferences |-> preferences]]]
      [] io = "denied" -> [raised |-> TRUE, file |-> file]
      [] OTHER -> [raised |-> TRUE, file |-> CutMemoryFile]

\* the loop of load_memory over the saved messages
RECURSIVE Restore(_)
Restore(messages) ==
    IF messages = <<>> THEN <<>>
    ELSE LET msg == Head(messages)
         IN  IF msg.type = "human" THEN <<HumanMessage(msg.content)>> \o Restore(Tail(messages))
             ELSE IF msg.type = "ai" THEN <<AIMessage(msg.content)>> \o Restore(Tail(messages))
             ELSE Restore(Tail(messages))

\* load_memory: without a file the memory and the preferences are empty;
\* when open (io = "denied") or json.load raises, the exception is caught
\* and printed and they are empty as well; else they are read from the file
load_memory(file, io) ==
    IF ~file.exists
    THEN [memory |-> <<>>, preferences |-> NoArgs]
    ELSE IF io = "ok" /\ file.parses
         THEN [memory |-> Restore(file.data.messages),
               preferences |-> file.data.preferences]
         ELSE [memory |-> <<>>, preferences |-> NoArgs]

\* python solution.py: main() up to the main loop; io is what opening
\* MEMORY_FILE for reading does
MemoryStart(io) ==
    /\ mem_pc = "stopped"
    /\ LET loaded == load_memory(mem_file, io)
       IN  /\ mem_messages' = loaded.memory
           /\ mem_preferences' = loaded.preferences
    /\ mem_pc' = "running"
    /\ UNCHANGED <<mem_file, mem_saved>>

\* conversation.predict(input=user_input), then extract_preferences
MemoryPredict(user_input, bot_response) ==
    /\ mem_pc = "running"
    /\ Len(mem_messages) < 2 * MaxExchanges
    /\ mem_messages' = mem_messages \o <<HumanMessage(user_input), AIMessage(bot_response)>>
    /\ mem_preferences' = extract_preferences(user_input, mem_preferences)
    /\ UNCHANGED <<mem_pc, mem_file, mem_saved>>

\* "/clear": memory.clear()
MemoryClear ==
    /\ mem_pc = "running"
    /\ mem_messages' = <<>>
    /\ UNCHANGED <<mem_pc, mem_preferences, mem_file, mem_saved>>

\* "/quit": save_memory, then break. When save_memory raises, the loop's
\* except Exception prints the error and the loop goes on.
MemoryQuit(io) ==
    /\ mem_pc = "running"
    /\ LET saved == save_memory(mem_messages, mem_preferences, mem_file, io)
       IN  /\ mem_file' = saved.file
           /\ mem_saved' = IF saved.raised THEN mem_saved
                           ELSE [messages |-> mem_messages,
                                 preferences |-> mem_preferences]
           /\ mem_pc' = IF saved.raised THEN "running" ELSE "stopped"
    /\ UNCHANGED <<mem_messages, mem_preferences>>

\* KeyboardInterrupt: save_memory, then break. When save_memory raises
\* inside the except block, the exception leaves main and the process ends.
MemoryInterrupt(io) ==
    /\ mem_pc = "running"
    /\ LET saved == save_memory(mem_messages, mem_preferences, mem_file, io)
       IN  /\ mem_file' = saved.file
           /\ mem_saved' = IF saved.raised THEN mem_saved
                           ELSE [messages |-> mem_messages,
                                 preferences |-> mem_preferences]
    /\ mem_pc' = "stopped"
    /\ UNCHANGED <<mem_messages, mem_preferences>>

\* the process is killed: nothing is saved
MemoryKilled ==
    /\ mem_pc = "running"
    /\ mem_pc' = "stopped"
    /\ UNCHANGED <<mem_messages, mem_preferences, mem_file, mem_saved>>

InitMemory ==
    /\ mem_pc = "stopped"
    /\ mem_messages = <<>>
    /\ mem_preferences = NoArgs
    /\ mem_file = NoMemoryFile
    /\ mem_saved = [messages |-> <<>>, preferences |-> NoArgs]

NextMemory ==
    \/ \E io \in ReadStates : MemoryStart(io) /\ MemAlone
    \/ \E user_input \in UserTexts, bot_response \in BotTexts :
          MemoryPredict(user_input, bot_response) /\ MemAlone
    \/ MemoryClear /\ MemAlone
    \/ \E io \in DiskStates : MemoryQuit(io) /\ MemAlone
    \/ \E io \in DiskStates : MemoryInterrupt(io) /\ MemAlone
    \/ MemoryKilled /\ MemAlone

(***************************************************************************)
(* Lesson 9: solution.py, the content moderation pipeline                  *)
(*   detect_language -> check_toxicity -> analyze_sentiment ->             *)
(*   make_decision -> log_decision -> END                                  *)
(* Strings are sequences of characters.                                    *)
(***************************************************************************)

MaxLogLines == 1
MaxInitialChecks == 1

\* the contents submitted: main()'s test_content and others
Contents ==
    {
      <<"T", "h", "i", "s", " ", "i", "s", " ", "a", " ", "g", "r", "e",
        "a", "t", " ", "p", "r", "o", "d", "u", "c", "t", "!", " ", "L",
        "o", "v", "e", " ", "i", "t", "!">>,
      <<"T", "h", "i", "s", " ", "i", "s", " ", "s", "p", "a", "m", " ",
        "a", "n", "d", " ", "a", "b", "u", "s", "e", ",", " ", "t", "o",
        "t", "a", "l", " ", "s", "c", "a", "m">>,
      <<"T", "h", "i", "s", " ", "i", "s", " ", "o", "k", "a", "y", ",",
        " ", "n", "o", "t", "h", "i", "n", "g", " ", "s", "p", "e", "c",
        "i", "a", "l">>,
      <<"E", "x", "c", "e", "l", "l", "e", "n", "t", " ", "s", "e", "r",
        "v", "i", "c", "e", ",", " ", "h", "i", "g", "h", "l", "y", " ",
        "r", "e", "c", "o", "m", "m", "e", "n", "d", "!">>,
      <<"T", "e", "r", "r", "i", "b", "l", "e", " ", "e", "x", "p", "e",
        "r", "i", "e", "n", "c", "e", ",", " ", "w", "o", "r", "s", "t",
        " ", "e", "v", "e", "r">>,
      <<"I", " ", "h", "a", "t", "e", " ", "h", "o", "w", " ", "g", "r",
        "e", "a", "t", " ", "a", "n", "d", " ", "a", "w", "e", "s", "o",
        "m", "e", " ", "t", "h", "i", "s", " ", "i", "s">>,
      <<"N", "i", "c", "e", " ", "g", "l", "o", "v", "e", "s", ",", " ",
        "b", "a", "d", " ", "b", "a", "d", "g", "e">>,
      <<>>,
      <<"S", "C", "A", "M", "P", "I", " ", "i", "s", " ", "A", "M", "A",
        "Z", "I", "N", "G">>
    }

toxic_words ==
    {<<"s", "p", "a", "m">>,
     <<"h", "a", "t", "e">>,
     <<"a", "b", "u", "s", "e">>,
     <<"s", "c", "a", "m">>,
     <<"f", "r", "a", "u", "d">>}

positive_words ==
    {<<"g", "r", "e", "a", "t">>,
     <<"a", "w", "e", "s", "o", "m", "e">>,
     <<"l", "o", "v", "e">>,
     <<"e", "x", "c", "e", "l", "l", "e", "n", "t">>,
     <<"a", "m", "a", "z", "i", "n", "g">>}

negative_words ==
    {<<"b", "a", "d">>,
     <<"h", "a", "t", "e">>,
     <<"t", "e", "r", "r", "i", "b", "l", "e">>,
     <<"a", "w", "f", "u", "l">>,
     <<"w", "o", "r", "s", "t">>}

\* sum(1 for word in words if word in text)
Count(words, text) == Cardinality({word \in words : In(word, text)})

\* content[:50] + "..."
Truncate(content) == SubSeq(content, 1, IF Len(content) < 50 THEN Len(content) ELSE 50)
                        \o <<".", ".", ".">>

NoModeration ==
    [content |-> <<>>, language |-> "", is_toxic |-> FALSE, sentiment |-> "",
     decision |-> "", reason |-> "", checks |-> 0]

\* app.invoke({...}) with the content and the initial checks
ModInvoke(content, checks) ==
    /\ mod_pc \in {"main", "END"}
    /\ Len(SelectSeq(mod_log, LAMBDA line : line.entry # <<>>)) < MaxLogLines
    /\ mod_state' = [NoModeration EXCEPT !.content = content, !.checks = checks]
    /\ mod_initial' = mod_state'
    /\ mod_trace' = <<>>
    /\ mod_pc' = "detect_language"
    /\ UNCHANGED mod_log

detect_language ==
    /\ mod_pc = "detect_language"
    /\ mod_state' = [mod_state EXCEPT !.language = "en", !.checks = @ + 1]
    /\ mod_trace' = Append(mod_trace, "detect_language")
    /\ mod_pc' = "check_toxicity"
    /\ UNCHANGED <<mod_initial, mod_log>>

check_toxicity ==
    /\ mod_pc = "check_toxicity"
    /\ mod_state' = [mod_state EXCEPT
          !.is_toxic = \E word \in toxic_words : In(word, lower(mod_state.content)),
          !.checks = @ + 1]
    /\ mod_trace' = Append(mod_trace, "check_toxicity")
    /\ mod_pc' = "analyze_sentiment"
    /\ UNCHANGED <<mod_initial, mod_log>>

Sentiment(content) ==
    LET content_lower == lower(content)
        pos_count == Count(positive_words, content_lower)
        neg_count == Count(negative_words, content_lower)
    IN  IF pos_count > neg_count THEN "positive"
        ELSE IF neg_count > pos_count THEN "negative"
        ELSE "neutral"

analyze_sentiment ==
    /\ mod_pc = "analyze_sentiment"
    /\ mod_state' = [mod_state EXCEPT !.sentiment = Sentiment(mod_state.content),
                                      !.checks = @ + 1]
    /\ mod_trace' = Append(mod_trace, "analyze_sentiment")
    /\ mod_pc' = "make_decision"
    /\ UNCHANGED <<mod_initial, mod_log>>

\* make_decision asking for the sentiment first
Decide_sentiment_first(state) ==
    IF state.sentiment = "positive"
    THEN [state EXCEPT !.decision = "approve", !.reason = "Clean and positive content"]
    ELSE IF state.is_toxic
    THEN [state EXCEPT !.decision = "reject", !.reason = "Toxic content detected"]
    ELSE [state EXCEPT !.decision = "review",
                       !.reason = "Neutral content requires human review"]

Decide(state) ==
    IF state.is_toxic
    THEN [state EXCEPT !.decision = "reject", !.reason = "Toxic content detected"]
    ELSE IF state.sentiment = "positive" /\ ~state.is_toxic
    THEN [state EXCEPT !.decision = "approve", !.reason = "Clean and positive content"]
    ELSE [state EXCEPT !.decision = "review",
                       !.reason = "Neutral content requires human review"]

make_decision ==
    /\ mod_pc = "make_decision"
    /\ mod_state' = Decide(mod_state)
    /\ mod_trace' = Append(mod_trace, "make_decision")
    /\ mod_pc' = "log_decision"
    /\ UNCHANGED <<mod_initial, mod_log>>

\* the line log_decision writes (without its timestamp)
LogEntry(state) ==
    [content |-> Truncate(state.content), decision |-> state.decision,
     reason |-> state.reason, sentiment |-> state.sentiment,
     is_toxic |-> state.is_toxic, checks |-> state.checks]

\* log_decision: the line is appended to moderation_log.jsonl, and what
\* open or write raises is passed over. The file is its lines: cut says that
\* the line starts with text that was cut off, entry is the entry written
\* with its newline (none yet on a last line that was cut off). io is what
\* open(.., "a") and f.write do: "ok" appends the line, "denied" makes open
\* raise, "full" makes the write raise after a part of the line has been
\* written.
log_decision(io) ==
    /\ mod_pc = "log_decision"
    /\ LET n == Len(mod_log)
           open == n > 0 /\ mod_log[n].entry = <<>>
           entry == LogEntry(mod_state)
       IN  mod_log' =
              CASE io = "ok" ->
                      IF open THEN [mod_log EXCEPT ![n].entry = <<entry>>]
                      ELSE Append(mod_log, [cut |-> FALSE, entry |-> <<entry>>])
                [] io = "denied" -> mod_log
                [] OTHER ->
                      IF open THEN mod_log
                      ELSE Append(mod_log, [cut |-> TRUE, entry |-> <<>>])
    /\ mod_trace' = Append(mod_trace, "log_decision")
    /\ mod_pc' = "END"
    /\ UNCHANGED <<mod_state, mod_initial>>

InitModeration ==
    /\ mod_pc = "main"
    /\ mod_state = NoModeration
    /\ mod_initial = NoModeration
    /\ mod_trace = <<>>
    /\ mod_log = <<>>

NextModeration ==
    \/ \E content \in Contents, checks \in 0..MaxInitialChecks :
          ModInvoke(content, checks) /\ ModAlone
    \/ detect_language /\ ModAlone
    \/ check_toxicity /\ ModAlone
    \/ analyze_sentiment /\ ModAlone
    \/ make_decision /\ ModAlone
    \/ \E io \in DiskStates : log_decision(io) /\ ModAlone

(***************************************************************************)
(* Lesson 10: demo.py, the supervisor workflow                             *)
(*   supervisor -> math | code | END;  math -> END;  code -> END           *)
(***************************************************************************)

\* the iterations a caller of app.invoke passes (demo_supervisor passes 0)
MaxInitialIterations == 2

\* supervisor: state["iterations"] >= 2
IterationLimit == 2

Queries == {"Calculate 15% of 240", "Write a sort function", "Hello"}

\* what the LLM answers the supervisor, as characters
SupervisorAnswers ==
    {<<"m", "a", "t", "h">>,
     <<" ", "M", "A", "T", "H", " ">>,
     <<"C", "o", "d", "e">>,
     <<"M", "A", "T", "H", " ", "o", "r", " ", "C", "O", "D", "E">>,
     <<"n", "e", "i", "t", "h", "e", "r">>,
     <<>>,
     <<"T", "h", "e", " ", "m", "a", "t", "h", "e", "m", "a", "t", "i", "c", "s", " ", "a", "g", "e", "n", "t">>,
     <<"E", "N", "D">>,
     <<"c", "o", "d", " ", "e">>}

\* what the LLM answers a worker agent
WorkerAnswers == {"", "36", "def f(): pass"}

UpperChar(c) ==
    CASE c = "a" -> "A" [] c = "b" -> "B" [] c = "c" -> "C"
      [] c = "d" -> "D" [] c = "e" -> "E" [] c = "f" -> "F"
      [] c = "g" -> "G" [] c = "h" -> "H" [] c = "i" -> "I"
      [] c = "j" -> "J" [] c = "k" -> "K" [] c = "l" -> "L"
      [] c = "m" -> "M" [] c = "n" -> "N" [] c = "o" -> "O"
      [] c = "p" -> "P" [] c = "q" -> "Q" [] c = "r" -> "R"
      [] c = "s" -> "S" [] c = "t" -> "T" [] c = "u" -> "U"
      [] c = "v" -> "V" [] c = "w" -> "W" [] c = "x" -> "X"
      [] c = "y" -> "Y" [] c = "z" -> "Z"
      [] OTHER -> c

upper(str) == [i \in 1..Len(str) |-> UpperChar(str[i])]

NoSupervision ==
    [query |-> "", next_agent |-> "", math_result |-> "", code_result |-> "",
     iterations |-> 0]

\* the keys of the conditional-edge map of the supervisor node
EdgeKeys == {"math", "code", "end"}

\* supervisor's choice from the LLM response
NextAgent(content) ==
    LET llm_response == upper(strip(content))
    IN  IF In(<<"M", "A", "T", "H">>, llm_response) THEN "math"
        ELSE IF In(<<"C", "O", "D", "E">>, llm_response) THEN "code"
        ELSE "END"

\* route_after_supervisor without the test for "END"
route_after_supervisor_raw(state) ==
    IF state.iterations >= IterationLimit THEN "end" ELSE state.next_agent

route_after_supervisor(state) ==
    IF state.next_agent = "END" \/ state.iterations >= IterationLimit
    THEN "end"
    ELSE state.next_agent

\* app.invoke({...})
SupInvoke(query, iterations) ==
    /\ sup_pc \in {"main", "END"}
    /\ sup_state' = [NoSupervision EXCEPT !.query = query, !.iterations = iterations]
    /\ sup_initial' = sup_state'
    /\ sup_response' = <<>>
    /\ sup_trace' = <<>>
    /\ sup_pc' = "supervisor"

\* the supervisor node, then its conditional edge
supervisor(content) ==
    /\ sup_pc = "supervisor"
    /\ IF sup_state.iterations >= IterationLimit
       THEN /\ sup_state' = [sup_state EXCEPT !.next_agent = "END"]
            /\ UNCHANGED sup_response
       ELSE /\ sup_state' = [sup_state EXCEPT !.next_agent = NextAgent(content)]
            /\ sup_response' = content
    /\ sup_trace' = Append(sup_trace, "supervisor")
    /\ LET key == route_after_supervisor(sup_state')
       IN  sup_pc' = IF key \notin EdgeKeys THEN "KeyError"
                     ELSE IF key = "end" THEN "END" ELSE key
    /\ UNCHANGED sup_initial

math_agent(content) ==
    /\ sup_pc = "math"
    /\ sup_state' = [sup_state EXCEPT !.math_result = content, !.iterations = @ + 1]
    /\ sup_trace' = Append(sup_trace, "math")
    /\ sup_pc' = "END"
    /\ UNCHANGED <<sup_initial, sup_response>>

code_agent(content) ==
    /\ sup_pc = "code"
    /\ sup_state' = [sup_state EXCEPT !.code_result = content, !.iterations = @ + 1]
    /\ sup_trace' = Append(sup_trace, "code")
    /\ sup_pc' = "END"
    /\ UNCHANGED <<sup_initial, sup_response>>

InitSupervisor ==
    /\ sup_pc = "main"
    /\ sup_state = NoSupervision
    /\ sup_initial = NoSupervision
    /\ sup_response = <<>>
    /\ sup_trace = <<>>

NextSupervisor ==
    \/ \E query \in Queries, iterations \in 0..MaxInitialIterations :
          SupInvoke(query, iterations) /\ SupAlone
    \/ \E content \in SupervisorAnswers : supervisor(content) /\ SupAlone
    \/ \E content \in WorkerAnswers : math_agent(content) /\ SupAlone
    \/ \E content \in WorkerAnswers : code_agent(content) /\ SupAlone

(***************************************************************************)
(* Lesson 16: api.py, the Metrics object over more than 1000 requests.     *)
(* Durations are in milliseconds; a ratio is a pair of numerator and       *)
(* denominator.                                                            *)
(***************************************************************************)

MaxRecords == 2
BurstSize == 999
MaxErrors == 1

\* durations of the requests that differ from the rest; the rest take 0
Durations == {1, 2}

\* sum(seq[lo..hi]), by halves
RECURSIVE SumRange(_, _, _)
SumRange(seq, lo, hi) ==
    IF lo > hi THEN 0
    ELSE IF lo = hi THEN seq[lo]
    ELSE LET mid == (lo + hi) \div 2
         IN  SumRange(seq, lo, mid) + SumRange(seq, mid + 1, hi)

SumSeq(seq) == SumRange(seq, 1, Len(seq))

Ratio(num, den) == [num |-> num, den |-> den]

\* Metrics.get_metrics
Metrics_get_metrics(m) ==
    [total_requests |-> m.total_requests,
     avg_response_time |->
        IF m.response_times # <<>>
        THEN Ratio(SumSeq(m.response_times), Len(m.response_times)) ELSE Ratio(0, 1),
     error_rate |->
        IF m.total_requests > 0
        THEN Ratio(m.total_errors, m.total_requests) ELSE Ratio(0, 1)]

NoMetricsBody == [total_requests |-> -1]

\* POST /query: metrics.record_request(processing_time, error), one request a
\* step. The traffic is a run of BurstSize requests of duration 0 with at
\* most MaxRecords requests of other durations before and after it; any
\* request may fail, at most MaxErrors of them do.
RecordRequest(duration, error) ==
    /\ IF duration = 0
       THEN /\ mt_run < BurstSize
            /\ mt_run' = mt_run + 1
            /\ UNCHANGED mt_singles
       ELSE /\ mt_run \in {0, BurstSize}
            /\ mt_singles < MaxRecords
            /\ mt_singles' = mt_singles + 1
            /\ UNCHANGED mt_run
    /\ error => mt_metrics.total_errors < MaxErrors
    /\ mt_metrics' = Metrics_record_request(mt_metrics, duration, error)
    /\ mt_history' = Append(mt_history, duration)
    /\ mt_response' = NoMetricsBody

\* GET /metrics
GetMetrics ==
    /\ mt_response' = Metrics_get_metrics(mt_metrics)
    /\ UNCHANGED <<mt_metrics, mt_history, mt_singles, mt_run>>

InitMetrics ==
    /\ mt_metrics = [total_requests |-> 0, total_errors |-> 0, response_times |-> <<>>]
    /\ mt_response = NoMetricsBody
    /\ mt_history = <<>>
    /\ mt_singles = 0
    /\ mt_run = 0

NextMetrics ==
    \/ \E duration \in Durations \cup {0}, error \in BOOLEAN :
          RecordRequest(duration, error) /\ MtAlone
    \/ GetMetrics /\ MtAlone

(***************************************************************************)
(* Lesson 16: api.py, POST /query requests of one free-tier user in flight *)
(* together on the event loop. A request is a coroutine; the event loop    *)
(* may switch to another request only where the framework awaits: before   *)
(* the dependency verify_api_key, before the dependency check_rate_limit   *)
(* and before the endpoint function. None of the three contains an await,  *)
(* so each runs to its end once begun. Requests of one user differ only in *)
(* how far they have got, so they are counted per suspension point.        *)
(***************************************************************************)

MaxArrivals == 12

ConcurrentKey == FreeKey

\* a request is received with the user's API key
CqReceive ==
    /\ cq_arrivals < MaxArrivals
    /\ cq_arrivals' = cq_arrivals + 1
    /\ cq_stage' = [cq_stage EXCEPT !.received = @ + 1]
    /\ UNCHANGED <<cq_now, cq_requests, cq_metrics, cq_status, cq_admitted>>

\* the dependency verify_api_key of one request
CqVerify ==
    /\ cq_stage.received > 0
    /\ LET hdr == API_KEY_HEADER(ConcurrentKey)
           auth == IF hdr.status = 0 THEN verify_api_key(hdr.api_key) ELSE hdr
       IN  IF auth.status # 0
           THEN /\ cq_stage' = [cq_stage EXCEPT !.received = @ - 1]
                /\ cq_status' = auth.status
           ELSE /\ cq_stage' = [cq_stage EXCEPT !.received = @ - 1, !.verified = @ + 1]
                /\ UNCHANGED cq_status
    /\ UNCHANGED <<cq_now, cq_arrivals, cq_requests, cq_metrics, cq_admitted>>

\* the dependency check_rate_limit of one request: the limit check and the
\* append of the timestamp, in one piece
CqCheckRateLimit ==
    /\ cq_stage.verified > 0
    /\ LET user_info == VALID_API_KEYS[ConcurrentKey]
           rl == RateLimiter_check_rate_limit(cq_requests, user_info.tier, cq_now)
       IN  /\ cq_requests' = rl.reqs
           /\ IF rl.ok
              THEN /\ cq_stage' = [cq_stage EXCEPT !.verified = @ - 1, !.admitted = @ + 1]
                   /\ cq_admitted' = Append(cq_admitted, cq_now)
                   /\ UNCHANGED cq_status
              ELSE /\ cq_stage' = [cq_stage EXCEPT !.verified = @ - 1]
                   /\ cq_status' = 429
                   /\ UNCHANGED cq_admitted
    /\ UNCHANGED <<cq_now, cq_arrivals, cq_metrics>>

\* the endpoint function query of one admitted request
CqQuery ==
    /\ cq_stage.admitted > 0
    /\ cq_stage' = [cq_stage EXCEPT !.admitted = @ - 1]
    /\ cq_metrics' = Metrics_record_request(cq_metrics, 0, FALSE)
    /\ cq_status' = 200
    /\ UNCHANGED <<cq_now, cq_arrivals, cq_requests, cq_admitted>>

\* the clock advances; admissions older than the window leave the history
CqTick ==
    /\ cq_now + TickStep <= MaxTime
    /\ cq_now' = cq_now + TickStep
    /\ cq_admitted' = SelectSeq(cq_admitted, LAMBDA t : t > cq_now' - Window)
    /\ UNCHANGED <<cq_stage, cq_arrivals, cq_requests, cq_metrics, cq_status>>

InitConcurrent ==
    /\ cq_now = 0
    /\ cq_stage = [received |-> 0, verified |-> 0, admitted |-> 0]
    /\ cq_arrivals = 0
    /\ cq_requests = <<>>
    /\ cq_metrics = [total_requests |-> 0, total_errors |-> 0, response_times |-> <<>>]
    /\ cq_status = 0
    /\ cq_admitted = <<>>

NextConcurrent ==
    \/ CqReceive /\ CqAlone
    \/ CqVerify /\ CqAlone
    \/ CqCheckRateLimit /\ CqAlone
    \/ CqQuery /\ CqAlone
    \/ CqTick /\ CqAlone

(***************************************************************************)
(* Properties of api.py                                                    *)
(***************************************************************************)

\* The requests of a user admitted in the window (now - 60, now] never exceed
\* the limit of the user's tier.
WithinLimit ==
    /\ Len(admitted["test_user"]) <= 10
    /\ Len(admitted["prod_user"]) <= 100

\* A POST /query of the free-tier user who has 10 admissions in the last 60
\* seconds is answered 429 (a step that leaves the clock alone is a request).
RejectedAtLimit ==
    (/\ now' = now
     /\ response'.key = "test-key-123"
     /\ Len(admitted["test_user"]) >= 10) => response'.status = 429

\* C1: for every user, check_rate_limit never admits more requests than the
\* tier's limit (10 free, 100 premium) with admission times in one 60-second
\* window, and the free-tier user with 10 admissions in the last 60 seconds
\* gets 429 for the next POST /query.
C1_RateLimit == []WithinLimit /\ [][RejectedAtLimit]_vars

\* The free-tier user is rejected at the limit, with admissions made at two
\* different times in the window and older ones already expired.
C1_Witness ==
    /\ response.key = "test-key-123" /\ response.status = 429
    /\ Len(admitted["test_user"]) = 10
    /\ metrics.total_requests > 10
    /\ \E i, j \in 1..10 : admitted["test_user"][i] # admitted["test_user"][j]

\* The status of the last response, by the key of its request, as claimed:
\* a valid key is answered 200 or, without quota, 429.
StatusByKeyClaimed ==
    response.status # 0 =>
        /\ response.key = NoKey <=> response.status = 403
        /\ (response.key # NoKey /\ response.key \notin {"test-key-123", "prod-key-456"})
               <=> response.status = 401
        /\ response.key \in {"test-key-123", "prod-key-456"}
               <=> response.status \in {200, 429}

\* As claimed: a request with a valid key and quota left is answered 200.
QuotaLeftClaimed ==
    now' = now =>
        /\ (/\ response'.key = "test-key-123"
            /\ Len(admitted["test_user"]) < 10) => response'.status = 200
        /\ (/\ response'.key = "prod-key-456"
            /\ Len(admitted["prod_user"]) < 100) => response'.status = 200

\* The handler body (which records the request in the metrics) runs exactly
\* for the requests answered 200, and a request that failed authentication
\* changes nothing.
BodyOnlyWhenAuthenticated ==
    now' = now =>
        /\ response'.status = 200
              <=> metrics'.total_requests = metrics.total_requests + 1
        /\ response'.status # 200 => metrics' = metrics
        /\ response'.status \in {401, 403}
              => /\ requests' = requests
                 /\ admitted' = admitted

\* C2 as stated: a POST /query without the X-API-Key header is answered 403,
\* one with a key not in VALID_API_KEYS 401, one with a valid key and quota
\* left 200, and the body of the query handler never runs for a request that
\* failed authentication.
C2_AsClaimed ==
    []StatusByKeyClaimed /\ [][QuotaLeftClaimed /\ BodyOnlyWhenAuthenticated]_vars

\* The status of the last response, by the key of its request: a valid key
\* is answered 200, 422 or, without quota, 429.
StatusByKey ==
    response.status # 0 =>
        /\ response.key = NoKey <=> response.status = 403
        /\ (response.key # NoKey /\ response.key \notin {"test-key-123", "prod-key-456"})
               <=> response.status = 401
        /\ response.key \in {"test-key-123", "prod-key-456"}
               <=> response.status \in {200, 422, 429}
        /\ response.status = 200 => response.valid
        /\ response.status = 422 => ~response.valid

\* A request with a valid key and quota left is answered 200 when its body is
\* a valid QueryRequest and 422 when it is not; the 422 request has been
\* counted by the rate limiter.
QuotaLeft ==
    now' = now =>
        /\ (/\ response'.key = "test-key-123"
            /\ Len(admitted["test_user"]) < 10)
              => response'.status = (IF response'.valid THEN 200 ELSE 422)
        /\ (/\ response'.key = "prod-key-456"
            /\ Len(admitted["prod_user"]) < 100)
              => response'.status = (IF response'.valid THEN 200 ELSE 422)
        /\ response'.status \in {200, 422}
              => \E u \in Users :
                    /\ Len(requests'[u]) > 0
                    /\ requests'[u][Len(requests'[u])] = now
                    /\ admitted'[u] = Append(admitted[u], now)

\* C2, amended: a POST /query with a JSON body is answered 403 without the
\* X-API-Key header and 401 with a key not in VALID_API_KEYS, whatever the
\* body; with a valid key and quota left it is answered 200 when the body is
\* a valid QueryRequest and 422 when it is not, the rate limiter having
\* counted it in both cases; the body of the query handler runs for the
\* requests answered 200 only, never for one that failed authentication.
C2_Authentication ==
    []StatusByKey /\ [][QuotaLeft /\ BodyOnlyWhenAuthenticated]_vars

\* An unknown key is answered 401 after requests of the free-tier user were
\* served, one of them answered 422 for its body; the limiter holds more
\* requests than the handler recorded.
C2_Witness ==
    /\ response.key = WrongKey /\ response.status = 401
    /\ metrics.total_requests > 0
    /\ Len(requests["test_user"]) > metrics.total_requests

(***************************************************************************)
(* Properties of the expense approval workflow                             *)
(***************************************************************************)

Ran(node) == \E i \in 1..Len(exp_trace) : exp_trace[i] = node

\* event a occurs in the trace before an occurrence of event b
Before(a, b) ==
    \E i, j \in 1..Len(exp_trace) : i < j /\ exp_trace[i] = a /\ exp_trace[j] = b

\* C3: an expense below $1000 that passes validation (is_suspicious False),
\* submitted with approved == False, completes in a single invoke, without an
\* interrupt, with final_status "APPROVED".
C3_AutoApproved ==
    (/\ exp_pc = "END"
     /\ exp_input.amount < 1000
     /\ ~exp_input.approved
     /\ ~exp_state.is_suspicious)
        => /\ exp_invokes = 1
           /\ ~Ran("interrupt")
           /\ exp_state.final_status = "APPROVED"

\* What the code does with such an expense: one invoke, no interrupt, and
\* final_status "REJECTED".
C3_Observed ==
    /\ exp_pc = "END"
    /\ exp_input.amount < 1000
    /\ ~exp_input.approved
    /\ ~exp_state.is_suspicious
    /\ exp_invokes = 1
    /\ ~Ran("interrupt")
    /\ exp_state.final_status = "REJECTED"

\* C4: once validate_expense has run on an expense with amount > 1000 or
\* is_suspicious, requires_approval is True, finalize_expense runs only after
\* the interrupt before human_approval and the resume that follows it, and the
\* expense has no final_status during the first invoke.
C4_ApprovalRequired ==
    (/\ Ran("validate")
     /\ exp_state.amount > 1000 \/ exp_state.is_suspicious)
        => /\ exp_state.requires_approval
           /\ Ran("finalize") =>
                 /\ Before("interrupt", "resume")
                 /\ Before("resume", "human_approval")
                 /\ Before("human_approval", "finalize")
                 /\ ~Before("finalize", "resume")
           /\ exp_invokes = 1 => exp_state.final_status = ""

\* A suspicious expense of no more than $1000 was approved by the human and
\* finalized in the second invoke.
C4_Witness ==
    /\ exp_pc = "END"
    /\ exp_state.amount <= 1000
    /\ exp_state.is_suspicious
    /\ exp_invokes = 2
    /\ exp_state.final_status = "APPROVED"

(***************************************************************************)
(* Properties of demo.py                                                   *)
(***************************************************************************)

\* C5: when the human has provided approval during the pause and the workflow
\* was resumed with invoke(None, config), execute_action has seen approved ==
\* True: the final response is not "Request denied".
C5_ApprovalHonoured ==
    (/\ ap_pc \in {"demo2", "paused1", "step1", "paused2", "step2",
                    "final_execution", "done"}
     /\ ap_result.approved)
        => /\ ap_state.approved
           /\ ap_final.response # "Request denied"

\* What the code does: the approval is in the returned dict only, and the
\* resumed run answers "Request denied".
C5_Observed ==
    /\ ap_pc = "done"
    /\ ap_result.approved
    /\ ~ap_state.approved
    /\ ap_final.response = "Request denied"

(***************************************************************************)
(* Properties of the task-manager server                                   *)
(***************************************************************************)

\* A step that is a call_tool (not a restart, not a tick of the clock).
SrvCallStep == srv_now' = srv_now /\ tool_call'.name # ""

IsError(call) ==
    /\ ~call.raised
    /\ "isError" \in DOMAIN call.result
    /\ call.result.isError = TRUE

\* The call returned a JSON text with "success": true.
Succeeded(call) ==
    /\ ~call.raised
    /\ "isError" \notin DOMAIN call.result
    /\ "success" \in DOMAIN call.result.content
    /\ call.result.content.success = TRUE

Blank(str) == \A i \in 1..Len(str) : str[i] = " "

\* The failing calls: an unknown tool; complete_task, delete_task or
\* update_task with a task_id that is not in T; add_task with an empty or
\* whitespace-only title; list_tasks with a status outside {all, pending,
\* completed}.
FailingCall(name, args, T) ==
    \/ name \notin {"add_task", "list_tasks", "complete_task", "delete_task",
                    "update_task", "get_stats"}
    \/ /\ name \in {"complete_task", "delete_task", "update_task"}
       /\ "task_id" \in DOMAIN args
       /\ args.task_id \notin DOMAIN T
    \/ /\ name = "add_task"
       /\ "title" \in DOMAIN args
       /\ Blank(args.title)
    \/ /\ name = "list_tasks"
       /\ "status" \in DOMAIN args
       /\ args.status \notin {"all", "pending", "completed"}

FailingCallIsError ==
    (SrvCallStep /\ FailingCall(tool_call'.name, tool_call'.args, tasks))
        => /\ IsError(tool_call')
           /\ tasks' = tasks
           /\ storage' = storage

\* C6: call_tool never raises; an unknown tool name or a failing handler
\* (complete_task, delete_task, update_task with an unknown task_id; add_task
\* with an empty or whitespace-only title; list_tasks with a status outside
\* {all, pending, completed}) yields isError == True and leaves the tasks, in
\* memory and in the file, unchanged.
C6_ErrorsAreResponses == [](~tool_call.raised) /\ [][FailingCallIsError]_vars

\* complete_task with an unknown task_id was answered with isError while two
\* tasks are stored.
C6_Witness ==
    /\ tool_call.name = "complete_task"
    /\ tool_call.args = [task_id |-> UnknownId]
    /\ IsError(tool_call)
    /\ Cardinality(DOMAIN tasks) = 2

Modifying == {"add_task", "complete_task", "delete_task", "update_task"}

\* After a modifying tool reported success the file holds the tasks in memory.
Persisted ==
    (tool_call.name \in Modifying /\ Succeeded(tool_call))
        => /\ storage.exists
           /\ storage.parses
           /\ DOMAIN storage.data = DOMAIN tasks
           /\ _load_tasks(storage, "ok") = tasks

\* A restart right after such a call leaves the server with the same tasks.
RestartKeepsTasks ==
    (/\ tool_call.name \in Modifying
     /\ Succeeded(tool_call)
     /\ tool_call'.name = "") => tasks' = tasks

\* C7: after every add_task, complete_task, delete_task or update_task that
\* reports success, the tasks in the storage file equal the tasks in memory,
\* so a server restarted at that point holds the same tasks with the same
\* fields.
C7_SavedAfterModification == []Persisted /\ [][RestartKeepsTasks]_vars

\* A server started while tasks.json could not be opened: it holds no task,
\* and the file holds one.
C7_UnreadStart ==
    /\ tool_call.name = ""
    /\ storage.exists
    /\ storage.parses
    /\ Cardinality(DOMAIN storage.data) = 1
    /\ Cardinality(DOMAIN tasks) = 0

\* add_task reported success while the write of tasks.json failed: the task
\* is in memory and the file holds no task.
C7_Observed ==
    /\ tool_call.name = "add_task"
    /\ Succeeded(tool_call)
    /\ Cardinality(DOMAIN tasks) = 1
    /\ storage = NoFile

\* What a modifying tool that reported success leaves in the file: the
\* tasks in memory when the write succeeded, else the file as it was or a
\* file that does not parse.
C7_WhenWritten ==
    [][(/\ SrvCallStep
        /\ tool_call'.name \in Modifying
        /\ Succeeded(tool_call'))
          => /\ storage' \in {Dumped(tasks'), storage, Unparsable}
             /\ _load_tasks(Dumped(tasks'), "ok") = tasks']_vars

AddSucceeded == SrvCallStep /\ tool_call'.name = "add_task" /\ Succeeded(tool_call')

\* C8: every successful add_task generates a task id distinct from the ids of
\* the tasks already stored: the number of tasks grows by exactly one and no
\* existing task is overwritten or altered.
C8_FreshId ==
    [][AddSucceeded =>
          /\ tool_call'.result.content.task_id \notin DOMAIN tasks
          /\ Cardinality(DOMAIN tasks') = Cardinality(DOMAIN tasks) + 1
          /\ \A i \in DOMAIN tasks : i \in DOMAIN tasks' /\ tasks'[i] = tasks[i]]_vars

\* What add_task guarantees: the new task is stored under the id drawn, and
\* the tasks under the other ids are as before.
C8_Observed ==
    [][AddSucceeded =>
          LET id == tool_call'.result.content.task_id
          IN  /\ DOMAIN tasks' = DOMAIN tasks \cup {id}
              /\ \A i \in DOMAIN tasks \ {id} : tasks'[i] = tasks[i]]_vars

\* A created task is pending, without completed_at.
CreatedPending ==
    AddSucceeded =>
        LET id == tool_call'.result.content.task_id
        IN  tasks'[id].status = "pending" /\ tasks'[id].completed_at = None

\* complete_task that reports success has moved the task to completed and
\* set completed_at.
CompleteCompletes ==
    (SrvCallStep /\ tool_call'.name = "complete_task" /\ Succeeded(tool_call'))
        => LET id == tool_call'.args.task_id
           IN  /\ tasks[id].status = "pending"
               /\ tasks'[id].status = "completed"
               /\ tasks'[id].completed_at # None

\* A completed task that is still stored stays completed, with the same
\* completed_at.
StaysCompleted ==
    \A i \in DOMAIN tasks \cap DOMAIN tasks' :
        tasks[i].status = "completed"
            => /\ tasks'[i].status = "completed"
               /\ tasks'[i].completed_at = tasks[i].completed_at

\* complete_task on a completed task: success false, no error, no change.
CompleteTwice ==
    (/\ SrvCallStep
     /\ tool_call'.name = "complete_task"
     /\ "task_id" \in DOMAIN tool_call'.args
     /\ tool_call'.args.task_id \in DOMAIN tasks
     /\ tasks[tool_call'.args.task_id].status = "completed")
        => /\ ~IsError(tool_call')
           /\ ~tool_call'.raised
           /\ tool_call'.result.content.success = FALSE
           /\ tasks' = tasks
           /\ storage' = storage

\* C9: a task is created pending with completed_at None; complete_task moves
\* it to completed and sets completed_at; no tool moves a completed task back
\* to pending; complete_task on a completed task returns success == false
\* (not an error) and changes nothing, so completed_at keeps the value of the
\* first completion.
C9_Lifecycle ==
    [][CreatedPending /\ CompleteCompletes /\ StaysCompleted /\ CompleteTwice]_vars

\* The same with add_task steps and restarts set aside: every other step
\* keeps a completed task completed.
C9_ExceptAdd ==
    [][/\ CreatedPending /\ CompleteCompletes /\ CompleteTwice
       /\ \/ SrvCallStep /\ tool_call'.name = "add_task"
          \/ tool_call'.name = ""
          \/ StaysCompleted]_vars

(***************************************************************************)
(* Properties of the code review agent                                     *)
(***************************************************************************)

RunBounded ==
    /\ rv_runs.revise <= 3
    /\ rv_runs.critique <= 4
    /\ rv_runs.check <= 1
    /\ rv_state.revision_count <= 3
    /\ rv_pc = "END" => rv_runs.check = 1
    /\ rv_pc = "check" =>
          (rv_state.quality_score >= 80 \/ rv_state.revision_count >= 3)
    /\ rv_pc = "revise" =>
          (rv_state.quality_score < 80 /\ rv_state.revision_count < 3)

\* C10: the code review agent terminates for every sequence of LLM outputs:
\* should_revise answers "done" as soon as quality_score >= 0.8 or
\* revision_count >= 3 and "revise" otherwise, so revise_code runs at most 3
\* times, critique_code at most 4 times, check_quality exactly once, and
\* revision_count never exceeds 3. (A run also ends when the LLM call itself
\* raises; such a run produces no LLM output and reaches "failed", not END.)
C10_Terminates ==
    []RunBounded /\ (rv_pc = "generate" ~> rv_pc \in {"END", "failed"})

\* A run that ended after three revisions and four critiques, its score still
\* below the threshold.
C10_Witness ==
    /\ rv_pc = "END"
    /\ rv_runs = [generate |-> 1, critique |-> 4, revise |-> 3, check |-> 1]
    /\ rv_state.revision_count = 3
    /\ rv_state.quality_score < 80

(***************************************************************************)
(* Properties of the MCP clients                                           *)
(***************************************************************************)

McCallStep == mc_seq' # mc_seq /\ mc_program = "lesson13"

\* Before initialize() has completed a client method raises RuntimeError and
\* the server receives nothing.
GuardedBeforeInitialize ==
    McCallStep /\ ~mc_initialized =>
        /\ mc_call'.outcome = "RuntimeError"
        /\ mc_call'.value = [message |-> "Client not initialized"]
        /\ mc_log' = mc_log

\* After initialize() the request reaches the server and the caller gets the
\* server's answer (for an unknown tool, the server's ValueError).
ForwardedAfterInitialize ==
    McCallStep /\ mc_initialized =>
        /\ Len(mc_log') = Len(mc_log) + 1
        /\ mc_log'[Len(mc_log')].method = mc_call'.method
        /\ mc_call'.outcome # "RuntimeError"
        /\ mc_call'.outcome = "ValueError" <=>
              (mc_call'.method = "call_tool" /\ mc_log'[Len(mc_log')].target \notin McTools)
        /\ mc_call'.method = "list_tools" => mc_call' = MockMCPServer_list_tools
        /\ mc_call'.method = "list_resources" => mc_call' = MockMCPServer_list_resources
        /\ mc_call'.method = "read_resource" =>
              mc_call' = MockMCPServer_read_resource(mc_log'[Len(mc_log')].target)

InitializedStays == mc_initialized => mc_initialized'

\* The lesson 14 client has the same guard on its connected flag, with the
\* message "Not connected".
TaskClientGuarded ==
    /\ mc_seq' # mc_seq /\ mc_program = "lesson14" /\ ~cd_connected =>
          /\ cd_call'.outcome = "RuntimeError"
          /\ UNCHANGED srvVars
    /\ mc_seq' # mc_seq /\ mc_program = "lesson14" /\ cd_connected =>
          cd_call'.outcome = "returned"
    /\ cd_connected => cd_connected'

\* C11: MCPClient.list_tools, list_resources, call_tool and read_resource
\* raise RuntimeError('Client not initialized') and never reach the server
\* when called before initialize() has completed; after initialize() they are
\* forwarded to the server, and the initialized flag never reverts to False.
C11_InitializedGuard ==
    [][/\ GuardedBeforeInitialize
       /\ ForwardedAfterInitialize
       /\ InitializedStays
       /\ TaskClientGuarded]_vars

\* A call made before initialize() completed was refused, and a later
\* call, after initialize() completed, reached the server.
C11_Witness ==
    /\ mc_initialized
    /\ mc_started = 1
    /\ Len(mc_log) = 1
    /\ mc_log[1].method = "read_resource"
    /\ mc_log[1].target = ReadmeUri
    /\ mc_call.outcome = "returned"
    /\ mc_call.value = [text |-> "# Project README"]
    /\ mc_seq = 0

(***************************************************************************)
(* Properties of the CLI chatbot                                           *)
(***************************************************************************)

\* C12: in the CLI chatbot the conversation history keeps only the last 10
\* messages (5 user + 5 assistant): after any sequence of user inputs and
\* model responses, the messages list never holds more than 10 entries.
C12_AtMostTen == Len(cb_messages) <= 10

\* What the code keeps: the list sent to chat() has at most 10 entries, the
\* list left after a response up to 11.
C12_Observed ==
    /\ cb_pc = "input"
    /\ Len(cb_messages) = 11
    /\ cb_messages[1].role = "assistant"
    /\ cb_messages[11].role = "assistant"

(***************************************************************************)
(* Properties of the personality chatbot's memory                          *)
(***************************************************************************)

\* The file a session starts from is the one the last completed save_memory
\* wrote.
StartsFromSaved ==
    /\ mem_pc = "stopped"
    /\ mem_pc' = "running"
    /\ mem_file.exists
    /\ mem_file.parses

\* C13: the personality chatbot remembers across sessions: save_memory
\* followed by load_memory restores the same preferences and the same
\* sequence of human/ai messages (same order, type and content) that were in
\* memory when it was saved.
C13_RoundTrip ==
    [][StartsFromSaved =>
          /\ mem_messages' = mem_saved.messages
          /\ mem_preferences' = mem_saved.preferences]_vars

\* A session runs with an empty memory and no preferences although
\* MEMORY_FILE holds the two exchanges, the name and the interests an earlier
\* session saved: load_memory could not open the file.
C13_Observed ==
    /\ mem_pc = "running"
    /\ mem_file.exists
    /\ mem_file.parses
    /\ Len(mem_file.data.messages) = 4
    /\ DOMAIN mem_file.data.preferences = {"name", "interests"}
    /\ mem_messages = <<>>
    /\ mem_preferences = NoArgs

\* What a session that starts from a saved file holds: what memory held at
\* that save_memory when load_memory read the file, nothing otherwise.
C13_WhenRead ==
    [][StartsFromSaved =>
          \/ /\ mem_messages' = mem_saved.messages
             /\ mem_preferences' = mem_saved.preferences
          \/ /\ mem_messages' = <<>>
             /\ mem_preferences' = NoArgs]_vars

\* A file that parses is the last completed save_memory's, message by message.
SavedIsOnDisk ==
    (mem_file.exists /\ mem_file.parses)
        => /\ Restore(mem_file.data.messages) = mem_saved.messages
           /\ mem_file.data.preferences = mem_saved.preferences

\* A session that started from a file holding two exchanges, a name and two
\* interests, and restored them.
C13_Restored ==
    /\ mem_pc = "running"
    /\ mem_file.exists
    /\ mem_file.parses
    /\ Len(mem_file.data.messages) = 4
    /\ Len(mem_messages) = 4
    /\ mem_messages[2].class = "AIMessage"
    /\ mem_messages = mem_saved.messages
    /\ DOMAIN mem_preferences = {"name", "interests"}
    /\ Len(mem_preferences["interests"]) = 2

(***************************************************************************)
(* Properties of the content moderation pipeline                           *)
(***************************************************************************)

PipelineOrder ==
    <<"detect_language", "check_toxicity", "analyze_sentiment", "make_decision",
      "log_decision">>

\* the nodes run so far are an initial part of the pipeline, each once
RunsInOrder ==
    /\ Len(mod_trace) <= 5
    /\ mod_trace = SubSeq(PipelineOrder, 1, Len(mod_trace))
    /\ mod_pc = "END" => mod_trace = PipelineOrder

DecisionAtEnd ==
    mod_pc = "END" =>
        /\ mod_state.content = mod_initial.content
        /\ mod_state.checks = mod_initial.checks + 3
        /\ mod_state.decision \in {"approve", "reject", "review"}
        /\ mod_state.decision = "reject" <=> mod_state.is_toxic
        /\ mod_state.decision = "approve" <=>
              (~mod_state.is_toxic /\ mod_state.sentiment = "positive")
        /\ mod_state.decision = "review" <=>
              (~mod_state.is_toxic /\ mod_state.sentiment # "positive")
        /\ mod_state.is_toxic <=>
              \E word \in toxic_words : In(word, lower(mod_state.content))

\* C14: for every content string, the moderation pipeline runs
\* detect_language, check_toxicity, analyze_sentiment, make_decision and
\* log_decision in that order, exactly once each, and terminates with
\* checks == initial checks + 3 and a decision in {approve, reject, review}:
\* reject if and only if the content is toxic, approve if and only if it is
\* not toxic and its sentiment is positive, review otherwise; toxic content is
\* never approved.
C14_Pipeline ==
    /\ [](RunsInOrder /\ DecisionAtEnd)
    /\ (mod_pc = "detect_language" ~> mod_pc = "END")

\* A run on content that is toxic ("hate") and of positive sentiment, given
\* one initial check, ended rejected.
C14_Witness ==
    /\ mod_pc = "END"
    /\ mod_initial.checks = 1
    /\ mod_state.checks = 4
    /\ mod_state.is_toxic
    /\ mod_state.sentiment = "positive"
    /\ mod_state.decision = "reject"
    /\ Len(mod_log) = 1
    /\ ~mod_log[1].cut
    /\ mod_log[1].entry = <<LogEntry(mod_state)>>

(***************************************************************************)
(* Properties of the supervisor workflow                                   *)
(***************************************************************************)

\* the supervisor's route is a key of the edge map, whatever the LLM said
RouteIsKey ==
    /\ sup_pc # "KeyError"
    /\ sup_pc \in {"math", "code", "END"} /\ sup_trace = <<"supervisor">> =>
          route_after_supervisor(sup_state) \in EdgeKeys

\* supervisor once, then at most one worker
OneWorker ==
    /\ sup_trace \in {<<>>, <<"supervisor">>, <<"supervisor", "math">>,
                      <<"supervisor", "code">>}
    /\ sup_pc = "END" => sup_trace # <<>>
    /\ sup_state.math_result = sup_initial.math_result
          \/ sup_state.code_result = sup_initial.code_result
    /\ sup_state.math_result # sup_initial.math_result => sup_trace = <<"supervisor", "math">>
    /\ sup_state.code_result # sup_initial.code_result => sup_trace = <<"supervisor", "code">>

\* iterations grows by one per worker; from demo_supervisor's 0 it ends <= 1
IterationsAtEnd ==
    /\ sup_state.iterations = sup_initial.iterations + (IF Len(sup_trace) = 2 THEN 1 ELSE 0)
    /\ sup_pc = "END" /\ sup_initial.iterations = 0 => sup_state.iterations <= 1

\* C15: in the supervisor workflow, for every LLM response
\* route_after_supervisor returns one of the keys 'math', 'code', 'end' of the
\* conditional-edge map; every run terminates after invoking the supervisor
\* once and at most one worker agent, so math_result and code_result are never
\* both set by one run and iterations is at most 1 when the run ends.
C15_Supervisor ==
    /\ [](RouteIsKey /\ OneWorker /\ IterationsAtEnd)
    /\ (sup_pc = "supervisor" ~> sup_pc = "END")

\* A run from iterations 0 where the LLM named both agents: routed to math,
\* ended with a math result, no code result and iterations 1.
C15_Witness ==
    /\ sup_pc = "END"
    /\ sup_initial.iterations = 0
    /\ In(<<"C", "O", "D", "E">>, upper(sup_response))
    /\ sup_trace = <<"supervisor", "math">>
    /\ sup_state.math_result = "36"
    /\ sup_state.code_result = ""
    /\ sup_state.iterations = 1

(***************************************************************************)
(* Properties of the Metrics object                                        *)
(***************************************************************************)

Min(a, b) == IF a < b THEN a ELSE b

\* response_times is the tail of everything recorded, at most 1000 long
MostRecentKept ==
    LET rt == mt_metrics.response_times
        n == Len(mt_history)
    IN  /\ mt_metrics.total_requests = n
        /\ Len(rt) = Min(n, 1000)
        /\ \A i \in 1..Len(rt) : rt[i] = mt_history[n - Len(rt) + i]

ErrorRateReported ==
    LET body == Metrics_get_metrics(mt_metrics)
    IN  /\ mt_metrics.total_errors <= mt_metrics.total_requests
        /\ mt_metrics.total_errors >= 0
        /\ body.error_rate.den > 0
        /\ 0 <= body.error_rate.num /\ body.error_rate.num <= body.error_rate.den
        /\ IF mt_metrics.total_requests = 0
           THEN body.error_rate.num = 0
           ELSE /\ body.error_rate.num = mt_metrics.total_errors
                /\ body.error_rate.den = mt_metrics.total_requests
        /\ mt_response # NoMetricsBody => mt_response = body

\* C16: after any sequence of Metrics.record_request calls, response_times
\* holds the most recent min(total_requests, 1000) durations in arrival order,
\* total_errors <= total_requests, and get_metrics reports error_rate ==
\* total_errors / total_requests (0 when there were no requests), which always
\* lies between 0 and 1.
C16_Metrics == MostRecentKept /\ ErrorRateReported

\* 1001 requests were recorded, one of them failed: the oldest duration is
\* gone, the newest is last, and GET /metrics reported 1/1001.
C16_Witness ==
    /\ mt_metrics.total_requests = 1001
    /\ mt_metrics.total_errors = 1
    /\ Len(mt_metrics.response_times) = 1000
    /\ mt_history[1] = 1
    /\ mt_metrics.response_times[1] = 0
    /\ mt_metrics.response_times[1000] = 2
    /\ mt_response # NoMetricsBody
    /\ mt_response.error_rate = Ratio(1, 1001)

(***************************************************************************)
(* Properties of concurrent requests                                       *)
(***************************************************************************)

\* the admissions of the last Window seconds are within the tier's limit
JointlyWithinLimit ==
    /\ Len(cq_admitted) <= FreeLimit
    /\ Len(cq_requests) <= FreeLimit
    /\ cq_stage.admitted + cq_metrics.total_requests <= cq_arrivals

\* a request is refused exactly when the window is full, however many other
\* requests are waiting before or after their own check
RefusedWhenFull ==
    cq_stage'.verified = cq_stage.verified - 1 =>
        /\ cq_stage'.admitted = cq_stage.admitted <=> Len(cq_admitted) = FreeLimit
        /\ cq_stage'.admitted = cq_stage.admitted + 1 <=> Len(cq_admitted) < FreeLimit
        /\ cq_stage'.admitted = cq_stage.admitted + 1 =>
              cq_requests'[Len(cq_requests')] = cq_now

\* C17: with several /query requests of the same user in flight concurrently
\* on the event loop, the check-and-record step of the rate limiter is atomic
\* (there is no suspension point between the limit check and the append of
\* the timestamp), so interleaved requests can never jointly exceed the tier
\* limit within a window.
C17_AtomicCheck == []JointlyWithinLimit /\ [][RefusedWhenFull]_vars

\* Twelve requests were in flight together: ten are admitted and still
\* waiting for the endpoint function, the other two were refused.
C17_Witness ==
    /\ cq_arrivals = 12
    /\ cq_stage = [received |-> 0, verified |-> 0, admitted |-> 10]
    /\ cq_status = 429
    /\ cq_metrics.total_requests = 0
    /\ Len(cq_admitted) = 10

(***************************************************************************)
(* Specifications: one per program                                         *)
(***************************************************************************)

Others ==
    /\ InitExpense
    /\ InitApproval
    /\ InitServer
    /\ InitReview
    /\ InitClient
    /\ InitChatbot
    /\ InitMemory
    /\ InitModeration
    /\ InitSupervisor
    /\ InitMetrics
    /\ InitConcurrent

StartApi == InitApi /\ Others
SpecApi == StartApi /\ [][NextApi]_vars

StartExpense == IdleApi /\ Others
SpecExpense == StartExpense /\ [][NextExpense]_vars

StartApproval == IdleApi /\ Others
SpecApproval == StartApproval /\ [][NextApproval]_vars

StartServer == IdleApi /\ Others
SpecServer == StartServer /\ [][NextServer]_vars

StartClient == IdleApi /\ Others
SpecClient == StartClient /\ [][NextClient]_vars

StartChatbot == IdleApi /\ Others
SpecChatbot == StartChatbot /\ [][NextChatbot]_vars

StartMemory == IdleApi /\ Others
SpecMemory == StartMemory /\ [][NextMemory]_vars

StartConcurrent == IdleApi /\ Others
SpecConcurrent == StartConcurrent /\ [][NextConcurrent]_vars

StartMetrics == IdleApi /\ Others
SpecMetrics == StartMetrics /\ [][NextMetrics]_vars

StartSupervisor == IdleApi /\ Others
SpecSupervisor ==
    StartSupervisor /\ [][NextSupervisor]_vars /\ WF_vars(NextSupervisor)

\* The graph engine runs the next node of a run that has not ended.
StartModeration == IdleApi /\ Others
SpecModeration ==
    StartModeration /\ [][NextModeration]_vars /\ WF_vars(NextModeration)

\* The graph engine runs the next node of a run that has not ended, and main()
\* goes on to the next test case.
StartReview == IdleApi /\ Others
SpecReview == StartReview /\ [][NextReview]_vars /\ WF_vars(NextReview)

====
